---- MODULE Spec2Model ----
(***************************************************************************)
(* A model of objc/api.py (dgelessus/objc-cffi): the interning caches of   *)
(* the reflective proxies (ID, Class, MetaClass, Protocol, Selector, Ivar, *)
(* Method, Property), their retain/release bookkeeping, the dynamic        *)
(* message send and the choice of the structure-return entry point.        *)
(***************************************************************************)
EXTENDS Integers, Sequences, FiniteSets, TLC

VARIABLES
    cache,      \* the _cache of each proxy family: (family, address) -> proxy
    lock,       \* the _cache_lock of each proxy family: its owner
    live,       \* the proxy objects that exist (not yet garbage-collected)
    gen,        \* per (family, address): how many proxies were ever created
    pending,    \* collected object proxies whose gc'ed cdata has not released yet
    retains,    \* per object address: retain messages sent
    releases,   \* per object address: release messages sent
    handed,     \* per object address: constructor calls made with retain=False
    pc,         \* per thread: its position in the constructor
    frame,      \* per thread: the arguments and locals of the running constructor
    last,       \* the outcome of the constructor call that returned last
    held,       \* per thread: the proxies it holds a strong reference to
    calls,      \* constructor calls started so far
    LP64,       \* the module constant LP64: whether the platform is 64-bit
    req,        \* the message send the caller makes: its arguments
    out,        \* the message send made last: its arguments and what it did
    sends,      \* message sends made so far
    props,      \* the runtime's property list of each class of the chain
    meths,      \* the runtime's method list of each class of the chain
    ans,        \* the table operation made last and its outcome
    adopts,     \* the runtime's protocol list of each class and protocol
    conf,       \* the conformance check under way: its call stack and result
    lazy,       \* one lazy table: its _cached slot and the threads reading it
    typelock,   \* the owner of the FFI's type-resolution lock
    cb,         \* per thread: the collected proxy whose release callback it runs
    attr,       \* the attribute access made last on an object proxy, and the
                \* per-class _instance_property_names
    co,         \* the coerce call under way: the locals of _objc_issubclass
    ns          \* the namespaces objc.classes and objc.protocols: their
                \* _known_names and the lookup under way

ivars == <<cache, lock, live, gen, pending, retains, releases, handed,
           pc, frame, last, held, calls>>
svars == <<LP64, req, out, sends>>
tvars == <<props, meths, ans>>
cvars == <<adopts, conf>>
dvars == <<typelock, cb>>
avars == <<attr, co, ns>>
xvars == <<tvars, cvars, lazy, dvars, avars>>
\* all but the tables, all but the conformance check, all but the lazy table
notT == <<ivars, svars, cvars, lazy, dvars, avars>>
notC == <<ivars, svars, tvars, lazy, dvars, avars>>
notL == <<ivars, svars, tvars, cvars, dvars, avars>>
vars == <<cache, lock, live, gen, pending, retains, releases, handed,
          pc, frame, last, held, calls, LP64, req, out, sends, props, meths, ans,
          adopts, conf, lazy, typelock, cb, attr, co, ns>>

\* ------------------------------------------------------------------------
\* Bounds of the model.
MaxCalls == 2
MaxKindCalls == 2
MaxSends == 1
MaxArgs == 2
MaxDepth == 3
MaxStack == 6
MaxReaders == 3
MaxDestroyCalls == 3
MaxIter == 24
MaxLookups == 3

Threads == {"t1", "t2"}
NoThread == "none"

\* ------------------------------------------------------------------------
\* The external runtime: a fixed object graph with a root class, the Protocol
\* class, their metaclasses, one protocol object and one plain object.
NULL == "NULL"
ClassAddrs == {"NSObject", "NSObject.meta", "Protocol", "Protocol.meta"}
MetaAddrs == {"NSObject.meta", "Protocol.meta"}
ObjAddrs == ClassAddrs \cup {"proto1", "obj1"}
ObjAll == ObjAddrs \cup {NULL}

object_isClass(a) == a \in ClassAddrs

class_isMetaClass(a) == a \in MetaAddrs

object_getClass(a) ==
    CASE a = "obj1" -> "NSObject"
      [] a = "proto1" -> "Protocol"
      [] a = "NSObject" -> "NSObject.meta"
      [] a = "Protocol" -> "Protocol.meta"
      [] a = "NSObject.meta" -> "NSObject.meta"
      [] a = "Protocol.meta" -> "NSObject.meta"
      [] OTHER -> NULL

class_getSuperclass(c) ==
    CASE c = "Protocol" -> "NSObject"
      [] c = "Protocol.meta" -> "NSObject.meta"
      [] c = "NSObject.meta" -> "NSObject"
      [] c = "Derived" -> "Base"
      [] c \in {"NSString", "NSData", "NSArray", "NSDictionary", "NSSet"} -> "NSObject"
      [] c = "NSMutableString" -> "NSString"
      [] c = "NSMutableDictionary" -> "NSDictionary"
      [] OTHER -> NULL

\* The selectors of the runtime, by address; their names are sequences of
\* characters. "selBad" is a pointer that is no selector.
SendSels == {"f:", "f:g:", "new", "selBad"}
\* The selectors sent to test the ownership convention of results.
RetainSels == {"copy", "init", "mutableCopy", "new", "newObject", "description",
               "renew", "mutable"}
sel_isMapped(a) == a \in {"sel1", "f:", "f:g:"} \cup RetainSels

sel_getName(a) ==
    CASE a = "f:" -> <<"f", ":">>
      [] a = "f:g:" -> <<"f", ":", "g", ":">>
      [] a = "new" -> <<"n", "e", "w">>
      [] a = "copy" -> <<"c", "o", "p", "y">>
      [] a = "init" -> <<"i", "n", "i", "t">>
      [] a = "mutableCopy" -> <<"m", "u", "t", "a", "b", "l", "e", "C", "o", "p", "y">>
      [] a = "newObject" -> <<"n", "e", "w", "O", "b", "j", "e", "c", "t">>
      [] a = "description" -> <<"d", "e", "s", "c", "r", "i", "p", "t", "i", "o", "n">>
      [] a = "renew" -> <<"r", "e", "n", "e", "w">>
      [] a = "mutable" -> <<"m", "u", "t", "a", "b", "l", "e">>
      [] OTHER -> <<"s", "e", "l", "1">>

\* The instance methods of NSObject and their decoded signatures; nothing
\* implements f:g:.
class_getInstanceMethod(c, sel) ==
    IF c \in {"NSObject", "Protocol"} /\ sel \in {"f:", "new"} THEN sel ELSE NULL

decode_signature(sel) ==
    CASE sel = "f:" -> [restype |-> "void", argtypes |-> <<"id">>]
      [] OTHER -> [restype |-> "id", argtypes |-> <<>>]

\* _class_cdata["Protocol"]
ProtocolClass == "Protocol"

RECURSIVE InSuperclassChain(_, _)
InSuperclassChain(c, target) ==
    IF c = NULL THEN FALSE
    ELSE IF c = target THEN TRUE
    ELSE InSuperclassChain(class_getSuperclass(c), target)

_is_protocol(ptr) == InSuperclassChain(object_getClass(ptr), ProtocolClass)

\* ------------------------------------------------------------------------
\* Proxy kinds and families. ID, Class, MetaClass and Protocol share ID._cache
\* and ID._cache_lock (the subclasses do not rebind them); Selector, Ivar,
\* Method and Property each have their own.
ObjKinds == {"ID", "Class", "MetaClass", "Protocol"}
PlainKinds == {"Selector", "Ivar", "Method", "Property"}
Kinds == ObjKinds \cup PlainKinds
Families == PlainKinds \cup {"ID"}

Family(cls) == IF cls \in ObjKinds THEN "ID" ELSE cls

AddrsOf(fam) ==
    CASE fam = "ID" -> ObjAll
      [] fam = "Selector" -> {NULL, "sel1", "selBad"}
      [] fam = "Ivar" -> {NULL, "ivar1"}
      [] fam = "Method" -> {NULL, "meth1"}
      [] fam = "Property" -> {NULL, "prop1"}

Keys == UNION {{<<f, a>> : a \in AddrsOf(f)} : f \in Families}

\* issubclass(c, d) among the proxy classes
IsSubclass(c, d) ==
    \/ c = d
    \/ c \in ObjKinds /\ d = "ID"
    \/ c = "MetaClass" /\ d = "Class"

NoProxy == [fam |-> "-", addr |-> "-", gen |-> 0, cls |-> "-"]

Proxy(f, a, g, c) == [fam |-> f, addr |-> a, gen |-> g, cls |-> c]

\* ------------------------------------------------------------------------
\* What a constructor does with an address before it reaches the cache: it
\* returns None, raises, hands over to another class's constructor, or goes
\* on to the cache lookup as class cls.
RNone == [tag |-> "None", exc |-> "-", cls |-> "-"]
RRaise(e) == [tag |-> "Raise", exc |-> e, cls |-> "-"]
RCache(c) == [tag |-> "Cache", exc |-> "-", cls |-> c]

RECURSIVE ID_new(_, _)
RECURSIVE Class_new(_, _)
RECURSIVE MetaClass_new(_, _)
RECURSIVE Protocol_new(_, _)

ID_new_NoProtocolTest(cls, arg) ==
    IF arg = NULL THEN RNone
    ELSE IF ~IsSubclass(cls, "Class") /\ object_isClass(arg)
        THEN Class_new("Class", arg)
    ELSE RCache(cls)

ID_new(cls, arg) ==
    IF arg = NULL THEN RNone
    ELSE IF ~IsSubclass(cls, "Class") /\ object_isClass(arg)
        THEN Class_new("Class", arg)
    ELSE IF ~IsSubclass(cls, "Protocol") /\ _is_protocol(arg)
        THEN Protocol_new("Protocol", arg)
    ELSE RCache(cls)

Class_new(cls, arg) ==
    IF arg = NULL THEN RNone
    ELSE IF ~object_isClass(arg) THEN RRaise("ValueError")
    ELSE IF ~IsSubclass(cls, "MetaClass") /\ class_isMetaClass(arg)
        THEN MetaClass_new("MetaClass", arg)
    ELSE ID_new(cls, arg)

MetaClass_new(cls, arg) ==
    IF arg = NULL THEN RNone
    ELSE IF ~object_isClass(arg) \/ ~class_isMetaClass(arg) THEN RRaise("ValueError")
    ELSE Class_new(cls, arg)

\* The error message of Protocol.__new__ is formatted with self=self, a name
\* that is bound nowhere: evaluating it raises NameError in place of the
\* ValueError the statement names.
Protocol_new(cls, arg) ==
    IF arg = NULL THEN RNone
    ELSE IF ~_is_protocol(arg) THEN RRaise("NameError")
    ELSE ID_new(cls, arg)

Plain_new_NoNullTest(cls, arg) == RCache(cls)

\* Selector, Ivar, Method, Property: NULL gives None, else the cache lookup.
Plain_new(cls, arg) == IF arg = NULL THEN RNone ELSE RCache(cls)

New(cls, arg) ==
    CASE cls = "ID" -> ID_new(cls, arg)
      [] cls = "Class" -> Class_new(cls, arg)
      [] cls = "MetaClass" -> MetaClass_new(cls, arg)
      [] cls = "Protocol" -> Protocol_new(cls, arg)
      [] OTHER -> Plain_new(cls, arg)

\* ------------------------------------------------------------------------
NoFrame == [cls |-> "-", rcls |-> "-", arg |-> "-", retain |-> TRUE, self |-> NoProxy]
NoRes == [cls |-> "-", arg |-> "-", form |-> "-", retain |-> TRUE,
          tag |-> "-", exc |-> "-", proxy |-> NoProxy, via |-> "-"]

NoSend == [api |-> "-", recv |-> "-", sel |-> "-", args |-> <<>>, mode |-> "-",
           restype |-> "-", argtypes |-> <<>>, check |-> FALSE, fail |-> "-",
           queries |-> 0, coerced |-> 0, retained |-> {}, entry |-> "-",
           target |-> 0, nsent |-> 0, result |-> "-", keep |-> TRUE]

Result(cls, arg, form, retain, tag, exc, proxy, via) ==
    [cls |-> cls, arg |-> arg, form |-> form, retain |-> retain,
     tag |-> tag, exc |-> exc, proxy |-> proxy, via |-> via]

Key(t) == <<Family(frame[t].rcls), frame[t].arg>>

NoReq == [api |-> "-", sel |-> "-", args |-> <<>>, mode |-> "-", restype |-> "-",
          argtypes |-> <<>>, check |-> FALSE, res |-> "-"]

\* ------------------------------------------------------------------------
\* A chain of classes for the inherited tables: class 1 is the root and the
\* superclass of class c is class c - 1; Nil stands for no class and for a
\* NULL property or method.
Nil == 0
ChainClasses == 1..MaxDepth
PropNames == {"p", "q"}
MethNames == {"foo", "bar"}

NoTables == [c \in ChainClasses |-> <<>>]
NoAns == [op |-> "-", cls |-> Nil, key |-> "-", owner |-> Nil, found |-> FALSE,
          keys |-> <<>>, cached |-> {}, queried |-> FALSE, len |-> 0]

\* No table operation is made.
TablesIdle == props = NoTables /\ meths = NoTables /\ ans = NoAns

\* The classes and protocols of conformance checks: Derived is a subclass of
\* Base.
Protos == {"P1", "P2", "P3"}
ConformClasses == {"Base", "Derived"}

NoConf == [subj |-> "-", target |-> "-", result |-> "-", stack |-> <<>>, ret |-> "-"]

\* No conformance check is made.
ConformIdle == adopts = [n \in ConformClasses \cup Protos |-> {}] /\ conf = NoConf

\* The threads that read the lazy table; 0 stands for no table.
Readers == 1..MaxReaders

\* A LazyOrderedDict fresh from __init__: the _cached slot is unset.
NoLazy == [cached |-> 0, first |-> 0, made |-> 0,
           pc |-> [t \in Readers |-> "idle"],
           full |-> [t \in Readers |-> 0],
           served |-> [t \in Readers |-> 0]]

LazyIdle == lazy = NoLazy

\* No thread resolves a type or runs a release callback.
DestroyIdle == typelock = NoThread /\ cb = [t \in Threads |-> NoProxy]

\* Names are the characters of the text: no attribute is read or written and
\* no class has computed its _instance_property_names (0 stands for None).
NoAttr == [op |-> "-", cls |-> Nil, name |-> <<>>, outcome |-> "-", sel |-> <<>>,
           sent |-> <<>>, names |-> [c \in ChainClasses |-> 0],
           computed |-> [c \in ChainClasses |-> 0], dict |-> {}]

\* No coerce call is made.
NoCo == [pc |-> "idle", obj |-> Nil, target |-> Nil, subclass |-> Nil,
         cls |-> Nil, result |-> "-", steps |-> 0, issub |-> "-",
         kind |-> "-", classes |-> FALSE, want |-> "-", sub |-> "-", test |-> 0,
         with |-> "-"]

\* The names looked up in the namespaces, and the namespaces as
\* _ObjcSpecialFinderLoader creates them: no name is known.
Spaces == {"classes", "protocols"}
Names == {"NSObject", "Protocol", "proto1", "Nope"}
NoNs == [known |-> [sp \in Spaces |-> {}],
         recent |-> [sp \in Spaces |-> [n \in Names |-> "-"]],
         space |-> "-", name |-> "-", out |-> "-", registered |-> {}]

AccessIdle == attr = NoAttr /\ co = NoCo /\ ns = NoNs

XIdle == TablesIdle /\ ConformIdle /\ LazyIdle /\ DestroyIdle /\ AccessIdle

Imported(lp64) ==
    /\ LP64 = lp64
    /\ out = NoSend
    /\ sends = 0
    /\ cache = [k \in Keys |-> NoProxy]
    /\ lock = [f \in Families |-> NoThread]
    /\ live = {}
    /\ gen = [k \in Keys |-> 0]
    /\ pending = {}
    /\ retains = [a \in ObjAll |-> 0]
    /\ releases = [a \in ObjAll |-> 0]
    /\ handed = [a \in ObjAll |-> 0]
    /\ pc = [t \in Threads |-> "idle"]
    /\ frame = [t \in Threads |-> NoFrame]
    /\ last = NoRes
    /\ held = [t \in Threads |-> {}]
    /\ calls = 0

\* The constructors read nothing of the platform: the specifications of
\* interning start on a 64-bit one.
Init == Imported(TRUE) /\ req = NoReq /\ XIdle

\* ------------------------------------------------------------------------
\* The interning constructors, one action per step that other threads can
\* observe.

LockAvailable_NoLock(f, t) == TRUE

\* threading.RLock: free, or already owned by the asking thread
LockAvailable(f, t) == lock[f] = NoThread \/ lock[f] = t

HitRelease_Forgotten(a, isObj, retain) == UNCHANGED releases

HitRelease_Always(a, isObj, retain) ==
    IF isObj
        THEN releases' = [releases EXCEPT ![a] = @ + 1]
        ELSE UNCHANGED releases

\* _release(self.cdata) of a cache hit, or of an argument that already is a
\* proxy, when the constructor received retain=False
HitRelease(a, isObj, retain) ==
    IF isObj /\ ~retain
        THEN releases' = [releases EXCEPT ![a] = @ + 1]
        ELSE UNCHANGED releases

\* The caller's side of retain=False: it owned a retention of the object and
\* leaves it to the bridge.
HandOver(a, isObj, asked) ==
    IF isObj /\ ~asked
        THEN handed' = [handed EXCEPT ![a] = @ + 1]
        ELSE UNCHANGED handed

\* The outcome of finding proxy p in the cache, on either lookup.
Hit(t, cls, arg, retain, p, via) ==
    /\ HitRelease(arg, p.fam = "ID", retain)
    /\ HandOver(arg, p.fam = "ID", retain)
    /\ last' = Result(cls, arg, "addr", retain, "Proxy", "-", p, via)
    /\ held' = [held EXCEPT ![t] = @ \cup {p}]

\* cls(arg, retain=retain) with an address (a typed pointer or an integer),
\* up to and including the first lookup, try: return cls._cache[arg], which
\* is made without the lock.
Call(t, cls, arg, retain) ==
    /\ pc[t] = "idle"
    /\ calls' = calls + 1
    /\ LET r == New(cls, arg)
           k == <<Family(r.cls), arg>>
       IN
        IF r.tag # "Cache"
            THEN /\ last' = Result(cls, arg, "addr", retain, r.tag, r.exc, NoProxy, "-")
                 /\ UNCHANGED <<pc, frame, held, releases, handed>>
        ELSE IF cache[k] # NoProxy
            THEN /\ Hit(t, cls, arg, retain, cache[k], "hit1")
                 /\ UNCHANGED <<pc, frame>>
        ELSE /\ pc' = [pc EXCEPT ![t] = "lock"]
             /\ frame' = [frame EXCEPT ![t] =
                    [cls |-> cls, rcls |-> r.cls, arg |-> arg,
                     retain |-> retain, self |-> NoProxy]]
             /\ last' = NoRes
             /\ UNCHANGED <<held, releases, handed>>
    /\ UNCHANGED <<cache, lock, live, gen, pending, retains>>

\* cls(arg, retain=retain) with arg a proxy the caller holds: isinstance(arg,
\* cls) returns it (releasing once when retain is false); a proxy of another
\* class matches no branch and ends in the TypeError of the last branch.
CallProxy(t, cls, p, retain) ==
    /\ pc[t] = "idle"
    /\ p \in held[t]
    /\ calls' = calls + 1
    /\ IF IsSubclass(p.cls, cls)
        THEN /\ HitRelease(p.addr, cls \in ObjKinds, retain)
             /\ HandOver(p.addr, cls \in ObjKinds, retain)
             /\ last' = Result(cls, p.addr, "proxy", retain, "Proxy", "-", p, "same")
        ELSE /\ UNCHANGED <<releases, handed>>
             /\ last' = Result(cls, p.addr, "proxy", retain, "Raise", "TypeError", NoProxy, "-")
    /\ UNCHANGED <<cache, lock, live, gen, pending, retains, pc, frame, held>>

\* with cls._cache_lock: try: return cls._cache[arg]
Recheck(t) ==
    /\ pc[t] = "lock"
    /\ LockAvailable(Key(t)[1], t)
    /\ IF cache[Key(t)] # NoProxy
        THEN /\ Hit(t, frame[t].cls, frame[t].arg, frame[t].retain, cache[Key(t)], "hit2")
             /\ pc' = [pc EXCEPT ![t] = "idle"]
             /\ frame' = [frame EXCEPT ![t] = NoFrame]
             /\ UNCHANGED lock
        ELSE /\ lock' = [lock EXCEPT ![Key(t)[1]] = t]
             /\ pc' = [pc EXCEPT ![t] = "create"]
             /\ UNCHANGED <<frame, last, held, releases, handed>>
    /\ UNCHANGED <<cache, live, gen, pending, retains, calls>>

\* except KeyError: the new proxy. For the object family: self.cdata =
\* _gc_release(arg), the retain when asked for, cls._cache[arg] = self; the
\* attribute tables are set in the next step. The other families store cdata,
\* register and return; Selector first refuses an unmapped selector.
Create(t) ==
    LET k == Key(t)
        p == Proxy(k[1], k[2], gen[k] + 1, frame[t].rcls)
        isObj == k[1] = "ID"
    IN
    /\ pc[t] = "create"
    /\ IF k[1] = "Selector" /\ ~sel_isMapped(k[2])
        THEN /\ last' = Result(frame[t].cls, frame[t].arg, "addr", frame[t].retain,
                               "Raise", "ValueError", NoProxy, "-")
             /\ pc' = [pc EXCEPT ![t] = "idle"]
             /\ frame' = [frame EXCEPT ![t] = NoFrame]
             /\ lock' = [lock EXCEPT ![k[1]] = NoThread]
             /\ UNCHANGED <<cache, live, gen, retains, handed, held>>
        ELSE /\ gen' = [gen EXCEPT ![k] = @ + 1]
             /\ live' = live \cup {p}
             /\ cache' = [cache EXCEPT ![k] = p]
             /\ retains' = IF isObj /\ frame[t].retain
                    THEN [retains EXCEPT ![k[2]] = @ + 1] ELSE retains
             /\ handed' = IF isObj /\ ~frame[t].retain
                    THEN [handed EXCEPT ![k[2]] = @ + 1] ELSE handed
             /\ IF isObj
                 THEN /\ pc' = [pc EXCEPT ![t] = "fields"]
                      /\ frame' = [frame EXCEPT ![t].self = p]
                      /\ UNCHANGED <<last, held, lock>>
                 ELSE /\ last' = Result(frame[t].cls, frame[t].arg, "addr",
                                        frame[t].retain, "Proxy", "-", p, "miss")
                      /\ held' = [held EXCEPT ![t] = @ \cup {p}]
                      /\ pc' = [pc EXCEPT ![t] = "idle"]
                      /\ frame' = [frame EXCEPT ![t] = NoFrame]
                      /\ lock' = [lock EXCEPT ![k[1]] = NoThread]
    /\ UNCHANGED <<pending, releases, calls>>

\* the methods, properties and _methods_cache attributes; return self
SetFields(t) ==
    /\ pc[t] = "fields"
    /\ last' = Result(frame[t].cls, frame[t].arg, "addr", frame[t].retain,
                      "Proxy", "-", frame[t].self, "miss")
    /\ held' = [held EXCEPT ![t] = @ \cup {frame[t].self}]
    /\ pc' = [pc EXCEPT ![t] = "idle"]
    /\ frame' = [frame EXCEPT ![t] = NoFrame]
    /\ lock' = [lock EXCEPT ![Key(t)[1]] = NoThread]
    /\ UNCHANGED <<cache, live, gen, pending, retains, releases, handed, calls>>

\* A thread drops its reference to a proxy.
DropRef(t, p) ==
    /\ pc[t] = "idle"
    /\ p \in held[t]
    /\ held' = [held EXCEPT ![t] = @ \ {p}]
    /\ UNCHANGED <<cache, lock, live, gen, pending, retains, releases, handed,
                   pc, frame, last, calls>>

Referenced(p) ==
    \/ \E t \in Threads : p \in held[t]
    \/ \E t \in Threads : frame[t].self = p

\* The garbage collector frees a proxy nothing refers to (a proxy and its
\* methods table refer to each other, so only the cycle collector frees it):
\* the weak cache entry goes, and the gc'ed cdata of an object proxy awaits
\* its callback.
Collect(p) ==
    /\ p \in live
    /\ ~Referenced(p)
    /\ live' = live \ {p}
    /\ cache' = [k \in Keys |-> IF cache[k] = p THEN NoProxy ELSE cache[k]]
    /\ pending' = IF p.fam = "ID" THEN pending \cup {p} ELSE pending
    /\ UNCHANGED <<lock, gen, retains, releases, handed, pc, frame, last, held, calls>>

GcRelease_Lost(p) ==
    /\ p \in pending
    /\ pending' = pending \ {p}
    /\ UNCHANGED <<cache, lock, live, gen, retains, releases, handed, pc, frame, last,
                   held, calls>>

\* The ffi.gc callback of a collected proxy's cdata: _release(ptr). It takes
\* no lock.
GcRelease(p) ==
    /\ p \in pending
    /\ pending' = pending \ {p}
    /\ releases' = [releases EXCEPT ![p.addr] = @ + 1]
    /\ UNCHANGED <<cache, lock, live, gen, retains, handed, pc, frame, last, held, calls>>

\* The steps every thread of T can take once a call is under way, and the
\* garbage collector's.
Steps(T) ==
    \/ \E t \in T : Recheck(t)
    \/ \E t \in T : Create(t)
    \/ \E t \in T : SetFields(t)
    \/ \E t \in T : \E p \in held[t] : DropRef(t, p)
    \/ \E p \in live : Collect(p)
    \/ \E p \in pending : GcRelease(p)

\* Concurrent callers: the threads intern the same few addresses of every
\* family, by address or by passing a proxy they hold.
HotCalls == {<<"ID", "obj1">>, <<"ID", "NSObject">>, <<"Class", "NSObject">>}
HotPlain == {<<"Selector", "sel1">>, <<"Selector", "selBad">>, <<"Ivar", "ivar1">>,
             <<"Method", "meth1">>, <<"Property", "prop1">>}

Next ==
    \/ /\ calls < MaxCalls
       /\ \/ \E t \in Threads, c \in HotCalls, r \in BOOLEAN : Call(t, c[1], c[2], r)
          \/ \E t \in Threads, c \in HotPlain : Call(t, c[1], c[2], TRUE)
          \/ \E t \in Threads, r \in BOOLEAN : \E p \in held[t] :
                CallProxy(t, IF p.fam = "ID" THEN "ID" ELSE p.cls, p, r)
       /\ UNCHANGED <<svars, xvars>>
    \/ Steps(Threads) /\ UNCHANGED <<svars, xvars>>

Spec == Init /\ [][Next]_vars

\* One caller: every class asked for every address of the runtime, and for
\* every proxy it holds; it keeps what it gets and the collector does not run.
NextKinds ==
    \/ /\ calls < MaxKindCalls
       /\ \/ \E cls \in ObjKinds, a \in ObjAll, r \in BOOLEAN : Call("t1", cls, a, r)
          \/ \E cls \in PlainKinds : \E a \in AddrsOf(cls) : Call("t1", cls, a, TRUE)
          \/ \E cls \in Kinds, r \in BOOLEAN : \E p \in held["t1"] : CallProxy("t1", cls, p, r)
       /\ UNCHANGED <<svars, xvars>>
    \/ (Recheck("t1") \/ Create("t1") \/ SetFields("t1")) /\ UNCHANGED <<svars, xvars>>

SpecKinds == Init /\ [][NextKinds]_vars

\* The garbage collector runs when there is garbage, and the callback of a
\* collected cdata runs; nothing obliges a thread to go on or to drop what it
\* holds.
Fairness ==
    /\ WF_vars(UNCHANGED <<svars, xvars>> /\ \E p \in live : Collect(p))
    /\ WF_vars(UNCHANGED <<svars, xvars>> /\ \E p \in pending : GcRelease(p))

SpecFair == Init /\ [][Next]_vars /\ Fairness

\* ------------------------------------------------------------------------
\* The release callback against the locks of a lookup. The collector runs the
\* callback of a collected cdata on whichever thread was running, wherever
\* that thread is: the thread goes on only after the callback returned.

ReleaseLocks_Typeof == {"type"}

\* The locks the release path takes: _release calls _objc_msgSend_release,
\* the function pointer cast once at import, so neither ffi.typeof (the
\* type-resolution lock) nor a _cache_lock is involved.
ReleaseLocks == {}

\* ffi.cast("id", arg) at the start of a constructor call: the thread takes
\* the type-resolution lock, which is not re-entrant.
CastEnter(t) ==
    /\ pc[t] = "idle"
    /\ cb[t] = NoProxy
    /\ typelock = NoThread
    /\ typelock' = t
    /\ UNCHANGED <<ivars, svars, tvars, cvars, lazy, avars, cb>>

\* The collector hands the callback of p to thread t.
DestroyStart(t, p) ==
    /\ p \in pending
    /\ cb[t] = NoProxy
    /\ \A u \in Threads : cb[u] # p
    /\ cb' = [cb EXCEPT ![t] = p]
    /\ UNCHANGED <<ivars, svars, tvars, cvars, lazy, avars, typelock>>

\* The callback on thread t takes the locks of the release path, sends the
\* release and returns.
DestroyRelease(t) ==
    /\ cb[t] # NoProxy
    /\ "type" \in ReleaseLocks => typelock = NoThread
    /\ "cache" \in ReleaseLocks => LockAvailable("ID", t)
    /\ GcRelease(cb[t])
    /\ cb' = [cb EXCEPT ![t] = NoProxy]
    /\ UNCHANGED <<svars, tvars, cvars, lazy, avars, typelock>>

\* The steps that finish what a thread has begun.
DestroyProgress ==
    \/ \E t \in Threads : cb[t] = NoProxy /\ typelock = t /\ typelock' = NoThread
            /\ Call(t, "ID", "obj1", TRUE)
            /\ UNCHANGED <<svars, tvars, cvars, lazy, avars, cb>>
    \/ \E t \in Threads : cb[t] = NoProxy
            /\ (Recheck(t) \/ Create(t) \/ SetFields(t))
            /\ UNCHANGED <<svars, xvars>>
    \/ \E t \in Threads : DestroyRelease(t)

\* Two threads intern the plain object and drop it; the collector runs.
NextDestroy ==
    \/ calls < MaxDestroyCalls /\ typelock = NoThread /\ \E t \in Threads : CastEnter(t)
    \/ DestroyProgress
    \/ \E t \in Threads : \E p \in held[t] :
            cb[t] = NoProxy /\ DropRef(t, p) /\ UNCHANGED <<svars, xvars>>
    \/ \E p \in live : Collect(p) /\ UNCHANGED <<svars, xvars>>
    \/ \E t \in Threads : \E p \in pending : DestroyStart(t, p)

SpecDestroy == Init /\ [][NextDestroy]_vars

\* ------------------------------------------------------------------------
\* Message sends.

\* Return and argument types. A void and an array type have no kind
\* attribute; "..." is the variadic marker (Ellipsis) of an argtypes list.
RetTypes == {"void", "int", "double", "id", "struct S", "struct S *", "union U", "int[2]"}
SendRetTypes == {"void", "id"}
ArgTypes == {"id", "..."}
ArgVals == {"proxy", "text"}

kind(tp) ==
    CASE tp = "struct S" -> "struct"
      [] tp = "union U" -> "union"
      [] tp \in {"id", "struct S *"} -> "pointer"
      [] tp \in {"int", "double"} -> "primitive"
      [] OTHER -> "none"

SeqsUpTo(S, n) == UNION {[1..k -> S] : k \in 0..n}

Min(a, b) == IF a < b THEN a ELSE b

\* ffi.string(libc.sel_getName(op)).count(b":")
ColonCount(name) == Cardinality({i \in 1..Len(name) : name[i] = ":"})

\* name.startswith(prefix)
startswith(name, prefix) ==
    Len(name) >= Len(prefix) /\ SubSeq(name, 1, Len(prefix)) = prefix

_should_retain_result_Always(sel) == TRUE

_should_retain_result(sel) ==
    LET name == sel_getName(sel) IN
    ~ \/ startswith(name, <<"c", "o", "p", "y">>)
      \/ startswith(name, <<"i", "n", "i", "t">>)
      \/ startswith(name, <<"m", "u", "t", "a", "b", "l", "e", "C", "o", "p", "y">>)
      \/ startswith(name, <<"n", "e", "w">>)

\* argtypes and argtypes[-1] is ...
IsVariadic(argtypes) == argtypes # <<>> /\ argtypes[Len(argtypes)] = "..."

_check_argcounts_CountFirst(op, nargs, argtypes) ==
    IF ~IsVariadic(argtypes) /\ nargs # Len(argtypes) THEN "ArityTypes"
    ELSE IF ~sel_isMapped(op) THEN "InvalidSelector"
    ELSE IF ~IsVariadic(argtypes) /\ nargs # ColonCount(sel_getName(op)) THEN "ArityColons"
    ELSE "ok"

_check_argcounts(op, nargs, argtypes) ==
    IF ~sel_isMapped(op) THEN "InvalidSelector"
    ELSE IF ~IsVariadic(argtypes) /\ nargs # Len(argtypes) THEN "ArityTypes"
    ELSE IF ~IsVariadic(argtypes) /\ nargs # ColonCount(sel_getName(op)) THEN "ArityColons"
    ELSE "ok"

_must_use_stret_AnyPlatform(restype) == restype # "void" /\ kind(restype) = "struct"

_must_use_stret(restype) == ~LP64 /\ restype # "void" /\ kind(restype) = "struct"

\* The checks of _make_function_ptr_ctype; the receiver and selector types
\* that _objc_msgSend puts in front of argtypes move no "..." to the end.
_make_function_ptr_ctype(restype, argtypes) ==
    IF restype # "void" /\ kind(restype) = "none" THEN "BadRestype"
    ELSE IF \E i \in 1..Len(argtypes) : argtypes[i] = "..." /\ i # Len(argtypes)
        THEN "EllipsisNotLast"
    ELSE "ok"

\* The entry point _get_polymorphic casts: libc.<name>_stret or libc.<name>
_get_polymorphic(name, restype) ==
    IF _must_use_stret(restype) THEN name \o "_stret" ELSE name

_objc_msgSend_CallFirst(op, nargs, restype, argtypes) ==
    LET chk == _check_argcounts(op, nargs, argtypes) IN
    [fail |-> IF chk # "ok" THEN chk ELSE "",
     entry |-> _get_polymorphic("objc_msgSend", restype), target |-> 1, nsent |-> nargs]

\* _objc_msgSend(obj, op, *args, restype=, argtypes=): the count checks, the
\* function pointer, the call.
_objc_msgSend(op, nargs, restype, argtypes) ==
    LET chk == _check_argcounts(op, nargs, argtypes)
        fp == _make_function_ptr_ctype(restype, argtypes)
    IN  IF chk # "ok" THEN [fail |-> chk, entry |-> "-", target |-> 0, nsent |-> 0]
        ELSE IF fp # "ok" THEN [fail |-> fp, entry |-> "-", target |-> 0, nsent |-> 0]
        ELSE [fail |-> "", entry |-> _get_polymorphic("objc_msgSend", restype),
              target |-> 1, nsent |-> nargs]

RECURSIVE Ancestors(_)
\* A Class proxy builds its instance_methods chain from cls.superclass, which
\* interns a proxy of every superclass in turn.
Ancestors(c) == IF c = NULL THEN {} ELSE {c} \cup Ancestors(class_getSuperclass(c))

\* The class proxies self.responds_to(sel) interns: self.cls, and self.cls.cls
\* for instances_respond_to, each with its superclasses.
RespondsClasses(recv) ==
    Ancestors(object_getClass(recv)) \cup Ancestors(object_getClass(object_getClass(recv)))

\* The arguments zip(args, argtypes) pairs, converted one by one: a proxy
\* gives its cdata; anything else is tested with issubclass(tp, ...), which
\* raises TypeError when tp is the "..." marker; a str for an id is coerced
\* to an NSString, an external call.
ZipFails(args, argtypes) ==
    {i \in 1..Min(Len(args), Len(argtypes)) : argtypes[i] = "..." /\ args[i] # "proxy"}

ZipGood(args, argtypes) ==
    {i \in 1..Min(Len(args), Len(argtypes)) : \A j \in ZipFails(args, argtypes) : i < j}

Coerced(args, argtypes) ==
    Cardinality({i \in ZipGood(args, argtypes) : argtypes[i] = "id" /\ args[i] = "text"})

\* ID.msg_send up to the result of _objc_msgSend. mode is "inferred" (no
\* restype, no argtypes), "half" (one of them) or "explicit".
msg_send(recv, sel, args, mode, restype0, argtypes0, check) ==
    LET cls == object_getClass(recv)
        responds == class_getInstanceMethod(cls, sel) # NULL
        base == [fail |-> "", queries |-> 0, coerced |-> 0, classes |-> {},
                 entry |-> "-", target |-> 0, nsent |-> 0,
                 restype |-> "-", argtypes |-> <<>>]
        asked == IF check
                    THEN [base EXCEPT !.queries = 2, !.classes = RespondsClasses(recv)]
                    ELSE base
        typed == IF mode = "inferred"
                    THEN [asked EXCEPT !.classes = @ \cup Ancestors(cls),
                                       !.restype = decode_signature(sel).restype,
                                       !.argtypes = decode_signature(sel).argtypes]
                    ELSE [asked EXCEPT !.restype = restype0, !.argtypes = argtypes0]
        zipped == [typed EXCEPT !.coerced = Coerced(args, typed.argtypes)]
        sent == _objc_msgSend(sel, Min(Len(args), Len(typed.argtypes)),
                              typed.restype, typed.argtypes)
    IN  IF ~sel_isMapped(sel) THEN [base EXCEPT !.fail = "InvalidSelector"]
        ELSE IF check /\ ~responds THEN [asked EXCEPT !.fail = "NotResponding"]
        ELSE IF mode = "half" THEN [asked EXCEPT !.fail = "TypesTogether"]
        ELSE IF mode = "inferred" /\ ~responds
            THEN [asked EXCEPT !.fail = "NoMethod", !.classes = @ \cup Ancestors(cls)]
        ELSE IF ZipFails(args, typed.argtypes) # {} THEN [zipped EXCEPT !.fail = "EllipsisType"]
        ELSE [zipped EXCEPT !.fail = sent.fail, !.entry = sent.entry,
                            !.target = sent.target, !.nsent = sent.nsent]

\* p.msg_send(sel, *args, restype=, argtypes=, check_responds=check) by a
\* thread that holds p, from the call to the unwrapped result; the arguments
\* are those of req, and req.res is the address an id-returning method
\* returns. The class proxies made on the way are interned like any other
\* (retained, registered) and nothing keeps them; the result of an id method
\* is interned with retain=_should_retain_result.
MsgSend(t, p) ==
    LET o == msg_send(p.addr, req.sel, req.args, req.mode, req.restype, req.argtypes,
                      req.check)
        res == req.res
        new == {a \in o.classes : cache[<<"ID", a>>] = NoProxy}
        wraps == o.fail = "" /\ o.restype = "id" /\ res # NULL
        keep == _should_retain_result(req.sel)
        got == cache[<<"ID", res>>]
        fresh(a) == Proxy("ID", a, gen[<<"ID", a>>] + 1, New("ID", a).cls)
        isnew(a) == a \in new \/ (wraps /\ a = res /\ got = NoProxy)
    IN
    /\ req.api = "msg_send"
    /\ pc[t] = "idle"
    /\ p \in held[t]
    /\ p.fam = "ID"
    /\ LockAvailable("ID", t)
    /\ sends' = sends + 1
    /\ out' = [api |-> "msg_send", recv |-> p.addr, sel |-> req.sel, args |-> req.args,
               mode |-> req.mode, restype |-> o.restype, argtypes |-> o.argtypes,
               check |-> req.check, fail |-> o.fail, queries |-> o.queries,
               coerced |-> o.coerced, retained |-> new, entry |-> o.entry,
               target |-> o.target, nsent |-> o.nsent,
               result |-> IF wraps THEN res ELSE "-", keep |-> keep]
    /\ cache' = [k \in Keys |-> IF k[1] = "ID" /\ isnew(k[2]) THEN fresh(k[2]) ELSE cache[k]]
    /\ gen' = [k \in Keys |-> IF k[1] = "ID" /\ isnew(k[2]) THEN gen[k] + 1 ELSE gen[k]]
    /\ live' = live \cup {fresh(a) : a \in {b \in ObjAddrs : isnew(b)}}
    /\ retains' = [a \in ObjAll |->
            IF a \in new \/ (wraps /\ a = res /\ got = NoProxy /\ keep)
                THEN retains[a] + 1 ELSE retains[a]]
    /\ releases' = [a \in ObjAll |->
            IF wraps /\ a = res /\ got # NoProxy /\ ~keep
                THEN releases[a] + 1 ELSE releases[a]]
    /\ handed' = [a \in ObjAll |->
            IF wraps /\ a = res /\ ~keep THEN handed[a] + 1 ELSE handed[a]]
    /\ held' = IF wraps
                THEN [held EXCEPT ![t] = @ \cup {IF got = NoProxy THEN fresh(res) ELSE got}]
                ELSE held
    /\ UNCHANGED <<lock, pending, pc, frame, last, calls, LP64, req, xvars>>

\* _objc_msgSend(obj, op, *args, restype=, argtypes=) called directly, with
\* cdata for the receiver and the selector; the result stays cdata.
LowSend(recv) ==
    LET o == _objc_msgSend(req.sel, Len(req.args), req.restype, req.argtypes) IN
    /\ req.api = "_objc_msgSend"
    /\ sends' = sends + 1
    /\ out' = [api |-> "_objc_msgSend", recv |-> recv, sel |-> req.sel,
               args |-> req.args, mode |-> "explicit",
               restype |-> req.restype, argtypes |-> req.argtypes, check |-> FALSE,
               fail |-> o.fail, queries |-> 0, coerced |-> 0, retained |-> {},
               entry |-> o.entry, target |-> o.target, nsent |-> o.nsent,
               result |-> "-", keep |-> TRUE]
    /\ UNCHANGED <<cache, lock, live, gen, pending, retains, releases, handed,
                   pc, frame, last, held, calls, LP64, req, xvars>>

\* The sends a caller can ask for: msg_send with inferred types, with one of
\* restype and argtypes, or with both, and the low-level invoker.
Requests ==
    {[api |-> "msg_send", sel |-> sel, args |-> args, mode |-> mode, restype |-> "-",
      argtypes |-> <<>>, check |-> check, res |-> res] :
        sel \in SendSels, args \in SeqsUpTo(ArgVals, MaxArgs),
        mode \in {"inferred", "half"}, check \in BOOLEAN, res \in {NULL, "proto1"}}
    \cup
    {[api |-> "msg_send", sel |-> sel, args |-> args, mode |-> "explicit",
      restype |-> restype, argtypes |-> argtypes, check |-> check, res |-> res] :
        sel \in SendSels, args \in SeqsUpTo(ArgVals, MaxArgs),
        restype \in SendRetTypes, argtypes \in SeqsUpTo(ArgTypes, MaxArgs),
        check \in BOOLEAN, res \in {NULL, "proto1"}}
    \cup
    {[api |-> "_objc_msgSend", sel |-> sel, args |-> [i \in 1..n |-> "cdata"],
      mode |-> "explicit", restype |-> restype, argtypes |-> argtypes,
      check |-> FALSE, res |-> NULL] :
        sel \in SendSels, n \in 0..MaxArgs, restype \in RetTypes,
        argtypes \in SeqsUpTo(ArgTypes, MaxArgs)}

InitSend ==
    /\ \E lp64 \in BOOLEAN : Imported(lp64)
    /\ req \in Requests
    /\ req.res # NULL => (req.mode = "inferred" \/ req.restype = "id")
    /\ XIdle

\* One caller that interns the plain object and sends it the message req, by
\* msg_send or by the low-level invoker; it keeps what it gets and the
\* collector does not run.
NextSend ==
    \/ /\ calls < MaxCalls
       /\ Call("t1", "ID", "obj1", TRUE)
       /\ UNCHANGED <<svars, xvars>>
    \/ (Recheck("t1") \/ Create("t1") \/ SetFields("t1")) /\ UNCHANGED <<svars, xvars>>
    \/ sends < MaxSends /\ \E p \in held["t1"] : MsgSend("t1", p)
    \/ sends < MaxSends /\ LowSend("obj1")

SpecSend == InitSend /\ [][NextSend]_vars

\* The sends whose result is an object: a method without arguments, types
\* given, returning the receiver itself or the protocol object.
RetainRequests ==
    {[api |-> "msg_send", sel |-> sel, args |-> <<>>, mode |-> "explicit",
      restype |-> "id", argtypes |-> <<>>, check |-> FALSE, res |-> res] :
        sel \in RetainSels, res \in {"obj1", "proto1"}}

InitRetain == Imported(TRUE) /\ req \in RetainRequests /\ XIdle

\* One caller that interns the plain object, perhaps the protocol object
\* too, and sends the plain object the message req.
NextRetain ==
    \/ /\ calls < MaxCalls
       /\ \E a \in {"obj1", "proto1"} : Call("t1", "ID", a, TRUE)
       /\ UNCHANGED <<svars, xvars>>
    \/ (Recheck("t1") \/ Create("t1") \/ SetFields("t1")) /\ UNCHANGED <<svars, xvars>>
    \/ sends < MaxSends /\ \E p \in held["t1"] : MsgSend("t1", p)

SpecRetain == InitRetain /\ [][NextRetain]_vars

\* ------------------------------------------------------------------------
\* Inherited views of the per-class tables.

\* The lists class_copyPropertyList and class_copyMethodList can return: the
\* names a class declares itself, each once, in some order.
ListsOf(S) ==
    {l \in UNION {[1..k -> S] : k \in 0..Cardinality(S)} :
        \A i \in 1..Len(l), j \in 1..Len(l) : i # j => l[i] # l[j]}

Range(l) == {l[i] : i \in 1..Len(l)}

\* Class.superclass
superclass(c) == c - 1

RECURSIVE class_getProperty(_, _)
\* libc.class_getProperty searches the class and then its superclasses; the
\* property found is named after the class that declares it.
class_getProperty(c, name) ==
    IF c = Nil THEN Nil
    ELSE IF name \in Range(props[c]) THEN c
    ELSE class_getProperty(superclass(c), name)

RECURSIVE chain_getInstanceMethod(_, _)
\* libc.class_getInstanceMethod searches the class and then its superclasses.
chain_getInstanceMethod(c, sel) ==
    IF c = Nil THEN Nil
    ELSE IF sel \in Range(meths[c]) THEN c
    ELSE chain_getInstanceMethod(superclass(c), sel)

\* list.reverse()
Reverse(l) == [i \in 1..Len(l) |-> l[Len(l) + 1 - i]]

RECURSIVE _mappings(_)
\* The _mappings of the inherited view of class c, each declared table named
\* by its class. MappingChain.__init__ takes the superclass's view and the
\* declared table: it splices the _mappings of a MappingChain, appends
\* anything else, and reverses the list. The view of the root is its declared
\* table itself.
_mappings(c) ==
    IF superclass(c) = Nil THEN <<c>>
    ELSE Reverse(_mappings(superclass(c)) \o <<c>>)

\* _InstancePropertiesDeclared.__getitem__ of class m: class_getProperty
InstancePropertiesDeclared_getitem(m, key) == class_getProperty(m, key)

RECURSIVE MappingChain_getitem(_, _)
\* MappingChain.__getitem__: the first mapping that does not raise KeyError
MappingChain_getitem(maps, key) ==
    IF maps = <<>> THEN Nil
    ELSE IF InstancePropertiesDeclared_getitem(Head(maps), key) # Nil
        THEN InstancePropertiesDeclared_getitem(Head(maps), key)
    ELSE MappingChain_getitem(Tail(maps), key)

\* MappingChain.__contains__, with LazyOrderedDict.__contains__ of each
\* declared table: key in self._get_cached()
MappingChain_contains(maps, key) ==
    \E i \in 1..Len(maps) : key \in Range(props[maps[i]])

RECURSIVE Unseen(_, _)
\* the keys of l that are not in seen, in order
Unseen(l, seen) ==
    IF l = <<>> THEN <<>>
    ELSE IF Head(l) \in seen THEN Unseen(Tail(l), seen)
    ELSE <<Head(l)>> \o Unseen(Tail(l), seen \cup {Head(l)})

RECURSIVE MappingChain_iter(_, _)
\* MappingChain.__iter__: the keys of each mapping in turn, a key seen
\* before left out
MappingChain_iter(maps, seen) ==
    IF maps = <<>> THEN <<>>
    ELSE Unseen(props[Head(maps)], seen)
            \o MappingChain_iter(Tail(maps), seen \cup Range(props[Head(maps)]))

RECURSIVE MappingChain_len(_)
\* MappingChain.__len__: sum(len(mapping) for mapping in self._mappings),
\* with LazyOrderedDict.__len__ of each declared table, len(_get_cached())
MappingChain_len(maps) ==
    IF maps = <<>> THEN 0
    ELSE Len(props[Head(maps)]) + MappingChain_len(Tail(maps))

InstanceMethods_getitem_ViaChain(c, key) ==
    LET hits == {i \in 1..Len(_mappings(c)) : key \in Range(meths[_mappings(c)[i]])}
    IN  IF hits = {} THEN Nil
        ELSE _mappings(c)[CHOOSE i \in hits : \A j \in hits : i <= j]

\* Class._InstanceMethods.__getitem__: class_getInstanceMethod, KeyError
\* when it returns NULL
InstanceMethods_getitem(c, key) == chain_getInstanceMethod(c, key)

Answer(op, c, key, owner, found, keys) ==
    [op |-> op, cls |-> c, key |-> key, owner |-> owner, found |-> found, keys |-> keys,
     cached |-> ans.cached, queried |-> FALSE, len |-> 0]

\* cls.instance_properties[key]
PropertyLookup(c, key) ==
    /\ ans' = Answer("getitem", c, key, MappingChain_getitem(_mappings(c), key),
                     MappingChain_getitem(_mappings(c), key) # Nil, _mappings(c))
    /\ UNCHANGED <<notT, props, meths>>

\* key in cls.instance_properties
PropertyContains(c, key) ==
    /\ ans' = Answer("contains", c, key, Nil, MappingChain_contains(_mappings(c), key),
                     _mappings(c))
    /\ UNCHANGED <<notT, props, meths>>

\* list(cls.instance_properties)
PropertyIterate(c) ==
    /\ ans' = Answer("iter", c, "-", Nil, TRUE, MappingChain_iter(_mappings(c), {}))
    /\ UNCHANGED <<notT, props, meths>>

\* len(cls.instance_properties)
PropertyLen(c) ==
    /\ ans' = [Answer("len", c, "-", Nil, TRUE, _mappings(c))
                    EXCEPT !.len = MappingChain_len(_mappings(c))]
    /\ UNCHANGED <<notT, props, meths>>

\* cls.instance_methods[key]
MethodLookup(c, key) ==
    /\ ans' = Answer("method", c, key, InstanceMethods_getitem(c, key),
                     InstanceMethods_getitem(c, key) # Nil, <<>>)
    /\ UNCHANGED <<notT, props, meths>>

\* list(cls.instance_properties_declared): _get_cached stores what
\* _get_full returns, the list of class_copyPropertyList, in _cached.
DeclaredMaterialize(c) ==
    /\ ans' = [Answer("materialize", c, "-", Nil, TRUE, props[c])
                    EXCEPT !.cached = @ \cup {c}]
    /\ UNCHANGED <<notT, props, meths>>

\* cls.instance_properties_declared[key]: _InstancePropertiesDeclared has
\* its own __getitem__, which asks the runtime with class_getProperty
\* whether or not _cached is set.
DeclaredLookup(c, key) ==
    /\ ans' = [Answer("declared", c, key, InstancePropertiesDeclared_getitem(c, key),
                      InstancePropertiesDeclared_getitem(c, key) # Nil, <<>>)
                    EXCEPT !.queried = TRUE]
    /\ UNCHANGED <<notT, props, meths>>

\* key in cls.instance_properties_declared: LazyOrderedDict.__contains__,
\* key in self._get_cached()
DeclaredContains(c, key) ==
    /\ ans' = [Answer("declared-contains", c, key, Nil, key \in Range(props[c]), props[c])
                    EXCEPT !.cached = @ \cup {c}]
    /\ UNCHANGED <<notT, props, meths>>

\* The property lists of the chain are any the runtime can hold; the
\* inherited views are read.
InitProps ==
    /\ Imported(TRUE)
    /\ req = NoReq
    /\ props \in [ChainClasses -> ListsOf(PropNames)]
    /\ meths = NoTables
    /\ ans = NoAns
    /\ ConformIdle
    /\ LazyIdle
    /\ DestroyIdle
    /\ AccessIdle

NextProps ==
    \/ \E c \in ChainClasses, key \in PropNames : PropertyLookup(c, key)
    \/ \E c \in ChainClasses, key \in PropNames : PropertyContains(c, key)
    \/ \E c \in ChainClasses : PropertyIterate(c)

SpecProps == InitProps /\ [][NextProps]_vars

\* The inherited views are measured as well as read.
NextLen ==
    \/ \E c \in ChainClasses : PropertyLen(c)
    \/ \E c \in ChainClasses : PropertyIterate(c)
    \/ \E c \in ChainClasses, key \in PropNames : PropertyContains(c, key)
    \/ \E c \in ChainClasses, key \in PropNames : PropertyLookup(c, key)

SpecLen == InitProps /\ [][NextLen]_vars

\* The declared property tables are materialized, tested and read.
NextDeclared ==
    \/ \E c \in ChainClasses : DeclaredMaterialize(c)
    \/ \E c \in ChainClasses, key \in PropNames : DeclaredLookup(c, key)
    \/ \E c \in ChainClasses, key \in PropNames : DeclaredContains(c, key)

SpecDeclared == InitProps /\ [][NextDeclared]_vars

\* The method lists of the chain are any the runtime can hold; methods are
\* looked up in the inherited views.
InitMeths ==
    /\ Imported(TRUE)
    /\ req = NoReq
    /\ props = NoTables
    /\ meths \in [ChainClasses -> ListsOf(MethNames)]
    /\ ans = NoAns
    /\ ConformIdle
    /\ LazyIdle
    /\ DestroyIdle
    /\ AccessIdle

NextMeths == \E c \in ChainClasses, key \in MethNames : MethodLookup(c, key)

SpecMeths == InitMeths /\ [][NextMeths]_vars

\* ------------------------------------------------------------------------
\* Protocol.__subclasscheck__ without the runtime's conformsToProtocol:
\* selector: the manual check, one action per step of the recursion.

RECURSIVE ReachFrom(_, _)
\* The protocols reached from the protocols S along the lists g, S included.
ReachFrom(g, S) ==
    LET T == S \cup UNION {g[p] : p \in S}
    IN  IF T = S THEN S ELSE ReachFrom(g, T)

\* The protocol lists of a runtime: no protocol conforms to itself through
\* others. Each class adopts at most one protocol here.
Acyclic(g) == \A p \in Protos : p \notin ReachFrom(g, g[p])

\* libc.class_conformsToProtocol, libc.protocol_conformsToProtocol: the
\* protocol is in the list of the class or protocol; a protocol conforms to
\* itself.
class_conformsToProtocol(c, q) == q \in adopts[c]

protocol_conformsToProtocol(p, q) == p = q \/ q \in adopts[p]

Frame(subj, phase, todo) == [subj |-> subj, phase |-> phase, todo |-> todo]

Top == conf.stack[Len(conf.stack)]

Callers == SubSeq(conf.stack, 1, Len(conf.stack) - 1)

\* return v: the frame is popped and the caller, or the top-level call, gets
\* the value
Return(v) ==
    conf' = [conf EXCEPT !.stack = Callers, !.ret = v,
                         !.result = IF Callers = <<>> THEN v ELSE "-"]

\* issubclass(callee, self) from the frame on top, which goes to phase
Recurse(callee, phase, todo) ==
    /\ Len(conf.stack) < MaxStack
    /\ conf' = [conf EXCEPT !.stack = Callers \o <<Frame(Top.subj, phase, todo),
                                                     Frame(callee, "start", {})>>,
                            !.ret = "-"]

Goto(phase, todo) ==
    conf' = [conf EXCEPT !.stack = Callers \o <<Frame(Top.subj, phase, todo)>>]

AdoptedToCheck_None(subj) == {}

\* subclass.protocols
AdoptedToCheck(subj) == adopts[subj]

Callee_Self(subj, proto) == subj

\* the proto of: for proto in subclass.protocols: issubclass(proto, self)
Callee(subj, proto) == proto

\* issubclass(subj, q) is called.
StartCheck(subj, q) ==
    /\ conf.stack = <<>>
    /\ conf' = [subj |-> subj, target |-> q, result |-> "-",
                stack |-> <<Frame(subj, "start", {})>>, ret |-> "-"]
    /\ UNCHANGED <<notC, adopts>>

\* The direct test; for a class without it, the call for its superclass.
CheckDirect ==
    /\ conf.stack # <<>>
    /\ Top.phase = "start"
    /\ IF Top.subj \in ConformClasses
        THEN IF class_conformsToProtocol(Top.subj, conf.target) THEN Return("T")
             ELSE IF class_getSuperclass(Top.subj) # NULL
                THEN Recurse(class_getSuperclass(Top.subj), "super", {})
             ELSE Goto("protos", AdoptedToCheck(Top.subj))
        ELSE IF protocol_conformsToProtocol(Top.subj, conf.target) THEN Return("T")
             ELSE Goto("protos", AdoptedToCheck(Top.subj))
    /\ UNCHANGED <<notC, adopts>>

\* The call for the superclass returned.
AfterSuper ==
    /\ conf.stack # <<>>
    /\ Top.phase = "super"
    /\ IF conf.ret = "T" THEN Return("T") ELSE Goto("protos", AdoptedToCheck(Top.subj))
    /\ UNCHANGED <<notC, adopts>>

\* for proto in subclass.protocols: the call for the next one, or return
\* False after the last.
NextProtocol ==
    /\ conf.stack # <<>>
    /\ Top.phase = "protos"
    /\ IF Top.todo = {} THEN Return("F")
        ELSE \E p \in Top.todo : Recurse(Callee(Top.subj, p), "wait", Top.todo \ {p})
    /\ UNCHANGED <<notC, adopts>>

\* The call for an adopted protocol returned.
AfterProtocol ==
    /\ conf.stack # <<>>
    /\ Top.phase = "wait"
    /\ IF conf.ret = "T" THEN Return("T") ELSE Goto("protos", Top.todo)
    /\ UNCHANGED <<notC, adopts>>

CheckStep == CheckDirect \/ AfterSuper \/ NextProtocol \/ AfterProtocol

InitConform ==
    /\ Imported(TRUE)
    /\ req = NoReq
    /\ TablesIdle
    /\ adopts \in [ConformClasses \cup Protos -> SUBSET Protos]
    /\ Acyclic(adopts)
    /\ \A c \in ConformClasses : Cardinality(adopts[c]) <= 1
    /\ conf = NoConf
    /\ LazyIdle
    /\ DestroyIdle
    /\ AccessIdle

NextConform ==
    \/ \E subj \in ConformClasses \cup Protos, q \in Protos : StartCheck(subj, q)
    \/ CheckDirect
    \/ AfterSuper
    \/ NextProtocol
    \/ AfterProtocol

SpecConform == InitConform /\ [][NextConform]_vars

\* A call that was made runs on: the interpreter takes the next step of the
\* check as long as there is one.
SpecConformFair == InitConform /\ [][NextConform]_vars /\ WF_vars(CheckStep)

\* ------------------------------------------------------------------------
\* LazyOrderedDict._get_cached, one action per step that another thread can
\* observe. A computed table is an object of its own: tables are numbered in
\* the order _get_full returned them.

\* try: return self._cached; except AttributeError: go on to compute
LazyRead(t) ==
    /\ lazy.pc[t] = "idle"
    /\ lazy.served[t] = 0
    /\ IF lazy.cached # 0
        THEN lazy' = [lazy EXCEPT !.served[t] = lazy.cached]
        ELSE lazy' = [lazy EXCEPT !.pc[t] = "compute"]
    /\ UNCHANGED notL

\* self._get_full()
LazyCompute(t) ==
    /\ lazy.pc[t] = "compute"
    /\ lazy' = [lazy EXCEPT !.made = @ + 1, !.full[t] = lazy.made + 1, !.pc[t] = "store"]
    /\ UNCHANGED notL

\* self._cached = <the computed table>
LazyStore(t) ==
    /\ lazy.pc[t] = "store"
    /\ lazy' = [lazy EXCEPT !.cached = lazy.full[t],
                            !.first = IF lazy.first = 0 THEN lazy.full[t] ELSE @,
                            !.pc[t] = "return"]
    /\ UNCHANGED notL

\* return self._cached
LazyReturn(t) ==
    /\ lazy.pc[t] = "return"
    /\ lazy' = [lazy EXCEPT !.served[t] = lazy.cached, !.pc[t] = "idle"]
    /\ UNCHANGED notL

\* The caller is done with what it was served and may come again.
LazyAgain(t) ==
    /\ lazy.pc[t] = "idle"
    /\ lazy.served[t] # 0
    /\ lazy' = [lazy EXCEPT !.served[t] = 0]
    /\ UNCHANGED notL

InitLazy ==
    Imported(TRUE) /\ req = NoReq /\ TablesIdle /\ ConformIdle /\ LazyIdle /\ DestroyIdle
    /\ AccessIdle

NextLazy ==
    \/ \E t \in Readers : LazyRead(t)
    \/ \E t \in Readers : LazyCompute(t)
    \/ \E t \in Readers : LazyStore(t)
    \/ \E t \in Readers : LazyReturn(t)
    \/ \E t \in Readers : LazyAgain(t)

SpecLazy == InitLazy /\ [][NextLazy]_vars

\* ------------------------------------------------------------------------
\* Attribute access on object proxies: ID.__getattr__ and ID.__setattr__ of
\* an instance of class c of the chain. A name is the tuple of its
\* characters.

notA == <<ivars, svars, tvars, cvars, lazy, dvars, co, ns>>

SHORT_PROPERTIES_On == TRUE

\* The module switch, read when a proxy is created.
SHORT_PROPERTIES == FALSE

\* The property names and the selectors that the classes of the chain may
\* declare, the names read and written, and the read-only property.
PropKeys == {<<"p">>, <<"v">>}
MethKeys == {<<"p">>, <<"f", ":">>}
AttrNames == {<<"p">>, <<"v">>, <<"f", "_">>, <<"x">>}
NativeNames == {<<"c", "d", "a", "t", "a">>}
ReadOnlyKeys == {<<"v">>}

\* str.replace(old, new) for one-character old and new
replace(name, old, new) ==
    [i \in 1..Len(name) |-> IF name[i] = old THEN new ELSE name[i]]

\* str.upper() of one character
upper(ch) ==
    CASE ch = "p" -> "P"
      [] ch = "v" -> "V"
      [] ch = "f" -> "F"
      [] ch = "x" -> "X"
      [] ch = "e" -> "E"
      [] OTHER -> ch

Outcome(outcome, sel, sent) == [outcome |-> outcome, sel |-> sel, sent |-> sent]

RespondsToSelector == <<"r", "e", "s", "p", "o", "n", "d", "s", "T", "o",
                        "S", "e", "l", "e", "c", "t", "o", "r", ":">>

Message(sel, arg) == [sel |-> sel, arg |-> arg]

\* instance.msg_send(sel, arg) with the types inferred and check_responds
\* left on: responds_to asks the instance with respondsToSelector: (the
\* root class is an NSObject), and ValueError is raised when the answer is
\* no or the class has no method for the selector; the message is sent
\* otherwise.
Instance_msg_send(c, sel, arg, done) ==
    IF InstanceMethods_getitem(c, sel) = Nil
        THEN Outcome("ValueError", sel, <<Message(RespondsToSelector, "selector")>>)
        ELSE Outcome(done, sel, <<Message(RespondsToSelector, "selector"),
                                  Message(sel, arg)>>)

\* Property.attributes.setter: the setter that the declaration names, <<>>
\* (None) when it names none
DeclaredSetter(name) ==
    IF name = <<"e">> THEN <<"p", "u", "t", "E", ":">> ELSE <<>>

\* Property.getter of a property without a custom getter
getter(name) == name

setter_NoUpper(name) ==
    IF name \in ReadOnlyKeys THEN <<>>
    ELSE IF DeclaredSetter(name) # <<>> THEN DeclaredSetter(name)
    ELSE <<"s", "e", "t">> \o name \o <<":">>

\* Property.setter: None (<<>>) for a read-only property, the declared
\* setter, or "set{}{}:".format(name[0].upper(), name[1:])
setter(name) ==
    IF name \in ReadOnlyKeys THEN <<>>
    ELSE IF DeclaredSetter(name) # <<>> THEN DeclaredSetter(name)
    ELSE <<"s", "e", "t", upper(Head(name))>> \o Tail(name) \o <<":">>

\* Property.get
Property_get(c, name) == Instance_msg_send(c, getter(name), "none", "property")

\* Property.set: TypeError for a read-only property
Property_set(c, name) ==
    IF name \in ReadOnlyKeys THEN Outcome("TypeError", <<>>, <<>>)
    ELSE Instance_msg_send(c, setter(name), "value", "property-set")

\* self.properties[name]: the table ID._Properties when the switch was on at
\* creation, a plain dict otherwise.
properties_getitem(c, name) ==
    IF SHORT_PROPERTIES
        THEN IF MappingChain_getitem(_mappings(c), name) = Nil
                THEN Outcome("KeyError", <<>>, <<>>)
                ELSE Property_get(c, name)
        ELSE IF name \in attr.dict
                THEN Outcome("dict", <<>>, <<>>)
                ELSE Outcome("KeyError", <<>>, <<>>)

\* self.properties[name] = value
properties_setitem(c, name) ==
    IF SHORT_PROPERTIES
        THEN IF MappingChain_getitem(_mappings(c), name) = Nil
                THEN Outcome("KeyError", <<>>, <<>>)
                ELSE Property_set(c, name)
        ELSE Outcome("dict", <<>>, <<>>)

\* ID._Methods.__getitem__: KeyError if the class has no such method, a
\* BoundMethod of the instance and the selector otherwise
Methods_getitem(c, key) ==
    IF InstanceMethods_getitem(c, key) = Nil
        THEN Outcome("KeyError", <<>>, <<>>)
        ELSE Outcome("BoundMethod", key, <<>>)

\* ID.__getattr__
ID_getattr(c, name) ==
    IF properties_getitem(c, name).outcome # "KeyError"
        THEN properties_getitem(c, name)
    ELSE IF Methods_getitem(c, replace(name, "_", ":")).outcome # "KeyError"
        THEN Methods_getitem(c, replace(name, "_", ":"))
    ELSE Outcome("AttributeError", <<>>, <<>>)

\* {prop.name for prop in self.cls.instance_properties}: iterating the view
\* yields its keys, the names as bytes, and bytes have no attribute `name`:
\* TRUE when the comprehension raises AttributeError.
NamesRaise(c) == MappingChain_iter(_mappings(c), {}) # <<>>

\* ID.__setattr__ of an initialised proxy (self.cdata is set): the outcome of
\* the write once the name set of the class is there.
ID_setattr(c, name, names) ==
    IF name \in NativeNames THEN Outcome("local", <<>>, <<>>)
    ELSE IF name \in names THEN properties_setitem(c, name)
    ELSE Outcome("local", <<>>, <<>>)

\* getattr(obj, name) for a name that normal lookup does not find
GetAttr(c, name) ==
    /\ attr' = [attr EXCEPT !.op = "get", !.cls = c, !.name = name,
                            !.outcome = ID_getattr(c, name).outcome,
                            !.sel = ID_getattr(c, name).sel,
                            !.sent = ID_getattr(c, name).sent]
    /\ UNCHANGED notA

\* setattr(obj, name, value): the name set of the class is computed when it
\* is None (never stored so far).
SetAttr(c, name) ==
    /\ IF attr.computed[c] = 0 /\ NamesRaise(c)
          THEN attr' = [attr EXCEPT !.op = "set", !.cls = c, !.name = name,
                                    !.outcome = "AttributeError",
                                    !.sel = <<>>, !.sent = <<>>]
          ELSE LET r == ID_setattr(c, name,
                                   IF attr.computed[c] = 0 THEN {} ELSE attr.names[c])
               IN  attr' = [attr EXCEPT
                        !.op = "set", !.cls = c, !.name = name,
                        !.outcome = r.outcome, !.sel = r.sel, !.sent = r.sent,
                        !.names[c] = IF attr.computed[c] = 0 THEN {} ELSE @,
                        !.computed[c] = IF attr.computed[c] = 0 THEN 1 ELSE @,
                        !.dict = IF r.outcome = "dict" THEN @ \cup {name} ELSE @]
    /\ UNCHANGED notA

\* the names of S that class c declares under the owners o, as a list
DeclaredBy(o, S, c) ==
    CHOOSE l \in ListsOf(S) : Range(l) = {k \in S : o[k] = c}

\* Each property and each method is declared by one class of the chain or by
\* none; attributes of instances of every class are read and written.
InitAttr ==
    /\ Imported(TRUE)
    /\ req = NoReq
    /\ \E o \in [PropKeys -> {Nil} \cup ChainClasses] :
            props = [c \in ChainClasses |-> DeclaredBy(o, PropKeys, c)]
    /\ \E o \in [MethKeys -> {Nil} \cup ChainClasses] :
            meths = [c \in ChainClasses |-> DeclaredBy(o, MethKeys, c)]
    /\ ans = NoAns
    /\ ConformIdle
    /\ LazyIdle
    /\ DestroyIdle
    /\ AccessIdle

NextAttr ==
    \/ \E c \in ChainClasses, name \in AttrNames : GetAttr(c, name)
    \/ \E c \in ChainClasses, name \in AttrNames \cup NativeNames : SetAttr(c, name)

SpecAttr == InitAttr /\ [][NextAttr]_vars

\* The properties that are set directly, and the selectors that classes may
\* implement for them.
SetKeys == {<<"p">>, <<"v">>, <<"e">>}
SetterSels == {<<"s", "e", "t", "P", ":">>, <<"s", "e", "t", "V", ":">>,
               <<"s", "e", "t", "E", ":">>, <<"p", "u", "t", "E", ":">>}

\* cls.instance_properties[name].set(instance, value) for an instance of
\* class c
PropertySet(c, name) ==
    /\ MappingChain_getitem(_mappings(c), name) # Nil
    /\ attr' = [attr EXCEPT !.op = "propset", !.cls = c, !.name = name,
                            !.outcome = Property_set(c, name).outcome,
                            !.sel = Property_set(c, name).sel,
                            !.sent = Property_set(c, name).sent]
    /\ UNCHANGED notA

\* The root class declares the properties; each setter selector is
\* implemented by one class of the chain or by none.
InitPropSet ==
    /\ Imported(TRUE)
    /\ req = NoReq
    /\ props = [c \in ChainClasses |->
                    IF c = 1 THEN DeclaredBy([k \in SetKeys |-> 1], SetKeys, 1) ELSE <<>>]
    /\ \E o \in [SetterSels -> {Nil} \cup ChainClasses] :
            meths = [c \in ChainClasses |-> DeclaredBy(o, SetterSels, c)]
    /\ ans = NoAns
    /\ ConformIdle
    /\ LazyIdle
    /\ DestroyIdle
    /\ AccessIdle

NextPropSet == \E c \in ChainClasses, name \in SetKeys : PropertySet(c, name)

SpecPropSet == InitPropSet /\ [][NextPropSet]_vars

\* ------------------------------------------------------------------------
\* coerce(obj, cls) of an object proxy whose class is class c of the chain;
\* Nil stands for cls=None and for the NULL class.

notO == <<ivars, svars, tvars, cvars, lazy, dvars, attr, ns>>

\* coerce is called: without a target class it returns obj at once, with one
\* it calls _objc_issubclass(obj.cls.cdata, cls.cdata).
CoerceCall(c, target) ==
    /\ co.pc = "idle"
    /\ co' = IF target = Nil
                THEN [NoCo EXCEPT !.pc = "done", !.obj = c, !.result = "same"]
                ELSE [NoCo EXCEPT !.pc = "loop", !.obj = c, !.target = target,
                                  !.subclass = c]
    /\ UNCHANGED notO

\* One turn of the loop of _objc_issubclass: False (and coerce raises
\* TypeError) when subclass is NULL, True (and coerce returns obj) when
\* subclass is the target; otherwise the superclass is stored in the local
\* cls, and subclass stays as it is.
IsSubclassTurn ==
    /\ co.pc = "loop"
    /\ co.steps < MaxIter
    /\ co' = IF co.subclass = Nil
                THEN [co EXCEPT !.pc = "done", !.result = "TypeError", !.issub = "F"]
             ELSE IF co.subclass = co.target
                THEN [co EXCEPT !.pc = "done", !.result = "same", !.issub = "T"]
             ELSE [co EXCEPT !.cls = superclass(co.subclass), !.steps = @ + 1]
    /\ UNCHANGED notO

\* The caller has the result and may call again.
CoerceDone ==
    /\ co.pc = "done"
    /\ co' = NoCo
    /\ UNCHANGED notO

NextCoerce ==
    \/ \E c \in ChainClasses, target \in {Nil} \cup ChainClasses : CoerceCall(c, target)
    \/ IsSubclassTurn
    \/ CoerceDone

SpecCoerce == Init /\ [][NextCoerce]_vars

\* ------------------------------------------------------------------------
\* coerce(obj, cls) of a native value. The value is a str, bytes, Mapping,
\* Set, other Iterable or something else, and has an attribute `classes` (a
\* namespace of class proxies) or, as the built-in types, has none.

NativeKinds == {"str", "bytes", "mapping", "set", "iterable", "other"}
TargetClasses == {"NSObject", "NSString", "NSMutableString", "NSData", "NSArray",
                  "NSDictionary", "NSMutableDictionary", "NSSet"}

_class_cdata_Right(key) == key

\* The table _class_cdata: the class that each key holds.
_class_cdata(key) == IF key = "NSDictionary" THEN "NSData" ELSE key

\* The keys that coerce tests the target against, in order, and the
\* conversion that each branch calls.
CoerceTests == <<"NSString", "NSData", "NSArray", "NSDictionary", "NSSet">>
CoerceBranches == <<"to_string", "to_data", "to_array", "to_string", "to_set">>

\* The chain of isinstance tests on the value
ByType(k) ==
    CASE k = "str" -> "to_string"
      [] k = "bytes" -> "to_data"
      [] k = "mapping" -> "to_dictionary"
      [] k = "set" -> "to_set"
      [] k = "iterable" -> "to_array"
      [] OTHER -> "TypeError"

\* coerce is called with a native value: `cls is None or cls ==
\* obj.classes.NSObject` reads obj.classes when a target is given.
NativeCall(k, hasClasses, want) ==
    /\ co.pc = "idle"
    /\ co' = LET call == [NoCo EXCEPT !.kind = k, !.classes = hasClasses, !.want = want]
             IN  IF want = "None"
                    THEN [call EXCEPT !.pc = "done", !.result = ByType(k)]
                 ELSE IF ~hasClasses
                    THEN [call EXCEPT !.pc = "done", !.result = "AttributeError"]
                 ELSE IF want = "NSObject"
                    THEN [call EXCEPT !.pc = "done", !.result = ByType(k)]
                 ELSE [call EXCEPT !.pc = "test", !.test = 1, !.sub = want]
    /\ UNCHANGED notO

\* One turn of the loop of _objc_issubclass(cls.cdata, _class_cdata[key]) in
\* the branch being tested: True takes the branch, False goes on to the next
\* branch and, after the last, to ValueError.
NativeTurn ==
    /\ co.pc = "test"
    /\ co.steps < MaxIter
    /\ co' = IF co.sub = NULL
                THEN IF co.test = Len(CoerceTests)
                        THEN [co EXCEPT !.pc = "done", !.result = "ValueError"]
                        ELSE [co EXCEPT !.test = @ + 1, !.sub = co.want]
             ELSE IF co.sub = _class_cdata(CoerceTests[co.test])
                THEN [co EXCEPT !.pc = "done", !.result = CoerceBranches[co.test],
                                !.with = co.want]
             ELSE [co EXCEPT !.steps = @ + 1]
    /\ UNCHANGED notO

NextNative ==
    \/ \E k \in NativeKinds, hasClasses \in BOOLEAN, want \in {"None"} \cup TargetClasses :
            NativeCall(k, hasClasses, want)
    \/ NativeTurn
    \/ CoerceDone

SpecNative == Init /\ [][NextNative]_vars

\* ------------------------------------------------------------------------
\* The namespaces objc.classes and objc.protocols.

notN == <<svars, tvars, cvars, lazy, dvars, attr, co>>

\* libc.objc_getClass(name) and libc.objc_getProtocol(name): the address, or
\* NULL for a name the runtime does not know. Protocols are registered while
\* the program runs.
objc_getClass(name) == IF name \in {"NSObject", "Protocol"} THEN name ELSE NULL
objc_getProtocol(name) == IF name \in ns.registered THEN name ELSE NULL

ByName(sp, name) == IF sp = "classes" THEN objc_getClass(name) ELSE objc_getProtocol(name)
ProxyClass(sp) == IF sp = "classes" THEN "Class" ELSE "Protocol"

KnownAfter_AlwaysAdd(known, name, found) == known \cup {name}

\* self._known_names.add(name) after a lookup that succeeded,
\* self._known_names.discard(name) after one that failed
KnownAfter(known, name, found) ==
    IF found THEN known \cup {name} ELSE known \ {name}

\* getattr(objc.classes, name) or getattr(objc.protocols, name): Class(name)
\* or Protocol(name) raises ValueError for NULL, and __getattr__ then raises
\* AttributeError; otherwise the constructor goes on with the address.
LookupName(sp, name) ==
    /\ ns.space = "-"
    /\ pc["t1"] = "idle"
    /\ calls < MaxLookups
    /\ IF ByName(sp, name) = NULL
          THEN /\ ns' = [ns EXCEPT !.known[sp] = KnownAfter(@, name, FALSE),
                                   !.recent[sp][name] = "fail",
                                   !.out = "AttributeError"]
               /\ UNCHANGED ivars
          ELSE /\ Call("t1", ProxyClass(sp), ByName(sp, name), TRUE)
               /\ ns' = [ns EXCEPT !.space = sp, !.name = name, !.out = "-"]
    /\ UNCHANGED notN

\* The constructor has returned the proxy: the name is added and the proxy
\* returned.
LookupReturn ==
    /\ ns.space # "-"
    /\ pc["t1"] = "idle"
    /\ ns' = [ns EXCEPT !.known[ns.space] = KnownAfter(@, ns.name, last.tag = "Proxy"),
                        !.recent[ns.space][ns.name] =
                            IF last.tag = "Proxy" THEN "ok" ELSE "fail",
                        !.out = IF last.tag = "Proxy" THEN "proxy" ELSE "AttributeError",
                        !.space = "-", !.name = "-"]
    /\ UNCHANGED <<ivars, notN>>

\* objc_registerProtocol, made by the program or by a library it loads
RegisterProtocol ==
    /\ ns.space = "-"
    /\ "proto1" \notin ns.registered
    /\ ns' = [ns EXCEPT !.registered = @ \cup {"proto1"}]
    /\ UNCHANGED <<ivars, notN>>

NextNames ==
    \/ \E sp \in Spaces, name \in Names : LookupName(sp, name)
    \/ (Recheck("t1") \/ Create("t1") \/ SetFields("t1")) /\ UNCHANGED <<svars, xvars>>
    \/ LookupReturn
    \/ RegisterProtocol

SpecNames == Init /\ [][NextNames]_vars

\* ------------------------------------------------------------------------
\* Method.__call__: the method of selector req.sel of the receiver's class,
\* invoked on the receiver.

\* Method.__call__(receiver, *args) from the second statement on. `sel =
\* Selector(sel)` reads the local sel, which nothing has assigned (the
\* method's selector is self.selector): it raises UnboundLocalError, and the
\* statements after it (decode_signature, _get_polymorphic("method_invoke",
\* ...), unwrap_cdata) are never reached.
Method_call(sel, nargs) ==
    [fail |-> "UnboundLocalError", restype |-> "-", argtypes |-> <<>>,
     entry |-> "-", target |-> 0, nsent |-> 0]

\* meth(p, *req.args) by a thread that holds p: receiver = ID(receiver)
\* returns p, then the rest of the call.
MethodCall(t, p) ==
    LET o == Method_call(req.sel, Len(req.args)) IN
    /\ req.api = "Method.__call__"
    /\ p.fam = "ID"
    /\ CallProxy(t, "ID", p, TRUE)
    /\ sends' = sends + 1
    /\ out' = [api |-> "Method.__call__", recv |-> p.addr, sel |-> req.sel,
               args |-> req.args, mode |-> req.mode, restype |-> o.restype,
               argtypes |-> o.argtypes, check |-> FALSE, fail |-> o.fail,
               queries |-> 0, coerced |-> 0, retained |-> {}, entry |-> o.entry,
               target |-> o.target, nsent |-> o.nsent, result |-> "-",
               keep |-> TRUE]
    /\ UNCHANGED <<LP64, req, xvars>>

\* The calls of a Method proxy without explicit types: a method that
\* NSObject has, with any arguments.
MethodRequests ==
    {[api |-> "Method.__call__", sel |-> sel, args |-> args, mode |-> "inferred",
      restype |-> "-", argtypes |-> <<>>, check |-> FALSE, res |-> NULL] :
        sel \in {"f:", "new"}, args \in SeqsUpTo(ArgVals, MaxArgs)}

InitInvoke ==
    /\ \E lp64 \in BOOLEAN : Imported(lp64)
    /\ req \in MethodRequests
    /\ XIdle

\* One caller that interns the plain object and invokes the method on it.
NextInvoke ==
    \/ /\ calls < MaxCalls
       /\ Call("t1", "ID", "obj1", TRUE)
       /\ UNCHANGED <<svars, xvars>>
    \/ (Recheck("t1") \/ Create("t1") \/ SetFields("t1")) /\ UNCHANGED <<svars, xvars>>
    \/ sends < MaxSends /\ \E p \in held["t1"] : MethodCall("t1", p)

SpecInvoke == InitInvoke /\ [][NextInvoke]_vars

\* ------------------------------------------------------------------------
\* The argument forms that carry an address to ID and to Class: a typed
\* pointer or an integer (the _CTYPES branch), a ctypes.c_void_p, a wrapper
\* of objc_util, and an object with an _objc_ptr attribute.
Forms == {"cdata", "int", "c_void_p", "objc_util", "_objc_ptr"}

\* The forms a constructor has a branch for: ID takes all of them, Class has
\* no _objc_ptr branch, and objc_util.ObjCClass wraps classes only.
Accepts(cls, form, arg) ==
    CASE form \in {"cdata", "int", "c_void_p"} -> TRUE
      [] form = "objc_util" -> cls = "ID" \/ object_isClass(arg)
      [] form = "_objc_ptr" -> cls = "ID"

\* The retain argument of the call that the branch of a form ends in:
\* ID(arg.ptr, retain=retain) and ID(addr, retain=retain) pass the caller's
\* on, ID(arg.value), Class(arg.ptr) and Class(arg.value) pass none and the
\* parameter takes its default, True.
PassedRetain(cls, form, retain) ==
    CASE form \in {"cdata", "int"} -> retain
      [] form = "c_void_p" -> TRUE
      [] form = "objc_util" -> IF cls = "ID" THEN retain ELSE TRUE
      [] form = "_objc_ptr" -> retain

\* cls(arg, retain=retain) with arg of any form: the TypeError of the last
\* branch, or the construction from the address the form carries.
Construct(t, cls, form, arg, retain) ==
    IF Accepts(cls, form, arg)
        THEN Call(t, cls, arg, PassedRetain(cls, form, retain))
        ELSE /\ pc[t] = "idle"
             /\ calls' = calls + 1
             /\ last' = Result(cls, arg, form, retain, "Raise", "TypeError", NoProxy, "-")
             /\ UNCHANGED <<cache, lock, live, gen, pending, retains, releases,
                            handed, pc, frame, held>>

\* One construction of a proxy of the object family: the class, the form,
\* the address and the retain argument the caller gives.
FormRequests ==
    {[api |-> cls, sel |-> "-", args |-> <<>>, mode |-> form, restype |-> "-",
      argtypes |-> <<>>, check |-> retain, res |-> a] :
        cls \in {"ID", "Class"}, form \in Forms, retain \in BOOLEAN,
        a \in {"obj1", "NSObject"}}

InitForms == Imported(TRUE) /\ req \in FormRequests /\ XIdle

\* The construction req describes, made once.
FormCall(t) ==
    /\ sends = 0
    /\ sends' = 1
    /\ Construct(t, req.api, req.mode, req.res, req.check)
    /\ UNCHANGED <<LP64, req, out, xvars>>

\* One caller: it may first intern the address in the ordinary way, so that
\* the construction finds the proxy cached, and then makes the construction.
NextForms ==
    \/ /\ calls = 0
       /\ sends = 0
       /\ Call("t1", "ID", req.res, TRUE)
       /\ UNCHANGED <<svars, xvars>>
    \/ (Recheck("t1") \/ Create("t1") \/ SetFields("t1")) /\ UNCHANGED <<svars, xvars>>
    \/ FormCall("t1")

SpecForms == InitForms /\ [][NextForms]_vars

\* ------------------------------------------------------------------------
\* Claims about interning and ownership.

LiveAt(f, a) == {p \in live : p.fam = f /\ p.addr = a}
PendingAt(a) == {p \in pending : p.addr = a}

\* C1: for every proxy family and address at most one proxy object exists at
\* any time, and the proxies that threads hold or are constructing for one
\* address are one and the same object, also when several threads missed the
\* cache at once.
C1_OneLiveProxyPerAddress ==
    /\ \A k \in Keys : Cardinality(LiveAt(k[1], k[2])) <= 1
    /\ \A t \in Threads : held[t] \subseteq live
    /\ \A t1 \in Threads, t2 \in Threads :
         \A p \in held[t1], q \in held[t2] \cup {frame[t2].self} :
            (p.fam = q.fam /\ p.addr = q.addr) => p = q
    /\ \A k \in Keys : cache[k] # NoProxy => cache[k] \in LiveAt(k[1], k[2])

\* Two threads missed the lock-free lookup of one address at once; one built
\* the proxy and the other found it on the re-check under the lock.
C1_Witness ==
    /\ last.via = "hit2"
    /\ \E t1 \in Threads, t2 \in Threads :
         t1 # t2 /\ last.proxy \in held[t1] /\ last.proxy \in held[t2]

HitStep ==
    /\ last'.tag = "Proxy"
    /\ last'.proxy.fam = "ID"
    /\ \/ calls' = calls + 1 /\ last'.via \in {"hit1", "same"}
       \/ \E t \in Threads : pc[t] = "lock" /\ pc'[t] = "idle" /\ last'.via = "hit2"

\* C3: a constructor call that finds a live proxy returns that proxy, sends no
\* retain, and sends exactly one release when retain=False was passed and none
\* when retain=True was passed, on the first lookup and on the re-check alike.
C3_HitReleasesIffNotRetain ==
    [][HitStep =>
        /\ last'.proxy \in live
        /\ last'.proxy.addr = last'.arg
        /\ last'.form = "addr" => last'.proxy = cache[<<"ID", last'.arg>>]
        /\ retains' = retains
        /\ releases' = [releases EXCEPT ![last'.arg] =
                            @ + (IF last'.retain THEN 0 ELSE 1)]
        /\ UNCHANGED <<cache, live, gen>>]_ivars

\* The re-check under the lock found the proxy and retain=False was passed.
C3_Witness ==
    /\ last.via = "hit2"
    /\ last.proxy.fam = "ID"
    /\ ~last.retain
    /\ releases[last.arg] = 1

\* The object proxies the concurrent callers can create.
HotObjProxies ==
    {Proxy("ID", c[2], g, New(c[1], c[2]).cls) : c \in HotCalls, g \in 1..MaxCalls}

Released(p) == p \notin live /\ p \notin pending /\ cache[<<"ID", p.addr>>] # p

\* Nothing refers to a proxy of address a and no constructor call for a is
\* under way.
Dropped(a) ==
    /\ \A t \in Threads : \A p \in held[t] : ~(p.fam = "ID" /\ p.addr = a)
    /\ \A t \in Threads : frame[t].arg # a

\* C4: a proxy created on a miss sends one retain iff retain=True was passed;
\* a proxy is collected only when nothing refers to it, its cache entry goes
\* with it and exactly one release is sent for it afterwards; a proxy that
\* stays without references is eventually collected and released, so that
\* the proxies created with retain=True for an address and dropped again
\* leave as many retains as releases, one of each per proxy.
C4_RetainOnMissReleaseOnCollect ==
    /\ [][\A t \in Threads : (pc[t] = "create" /\ pc'[t] = "fields") =>
            /\ retains' = [retains EXCEPT ![frame[t].arg] =
                              @ + (IF frame[t].retain THEN 1 ELSE 0)]
            /\ releases' = releases]_ivars
    /\ [][\A p \in HotObjProxies : (p \in live /\ p \notin live') =>
            /\ ~Referenced(p)
            /\ cache'[<<"ID", p.addr>>] = NoProxy
            /\ p \in pending'
            /\ releases' = releases]_ivars
    /\ [][\A p \in HotObjProxies : (p \in pending /\ p \notin pending') =>
            /\ releases' = [releases EXCEPT ![p.addr] = @ + 1]
            /\ p \notin live']_ivars
    /\ [](\A a \in ObjAddrs : handed[a] = 0 =>
            /\ retains[a] = gen[<<"ID", a>>]
            /\ releases[a] + Cardinality(PendingAt(a)) + Cardinality(LiveAt("ID", a))
                 = gen[<<"ID", a>>])
    /\ \A p \in HotObjProxies : (<>[](~Referenced(p))) => <>[]Released(p)
    /\ \A c \in HotCalls : (<>[]Dropped(c[2])) =>
            <>[](handed[c[2]] = 0 =>
                    /\ retains[c[2]] = gen[<<"ID", c[2]>>]
                    /\ releases[c[2]] = gen[<<"ID", c[2]>>])

\* Two proxies were created for one address with retain=True one after the
\* other, both were dropped and collected: two retains, two releases.
C4_Witness ==
    \E a \in ObjAddrs :
        /\ gen[<<"ID", a>>] = 2
        /\ handed[a] = 0
        /\ retains[a] = 2
        /\ releases[a] = 2
        /\ LiveAt("ID", a) = {}

\* ------------------------------------------------------------------------
\* Claims about the kind of proxy an address gets.

\* What each address of the runtime denotes.
Denoted(a) ==
    CASE a \in MetaAddrs -> "MetaClass"
      [] a \in ClassAddrs \ MetaAddrs -> "Class"
      [] a = "proto1" -> "Protocol"
      [] OTHER -> "ID"

\* A call cls(address) for a specific kind whose address denotes another kind.
KindMismatch(r) ==
    /\ r.form = "addr"
    /\ r.cls \in {"Class", "MetaClass", "Protocol"}
    /\ r.arg \in ObjAddrs
    /\ ~IsSubclass(Denoted(r.arg), r.cls)

\* C7: asking for a Class, MetaClass or Protocol proxy of a non-null address
\* that does not denote that kind fails with TypeError and returns no proxy.
C7_KindMismatchIsTypeError ==
    KindMismatch(last) => (last.tag = "Raise" /\ last.exc = "TypeError")

\* C8: ID(address) returns a Class proxy for a class (a MetaClass proxy for a
\* metaclass), else a Protocol proxy for an object whose class chain contains
\* Protocol, else a plain ID proxy; every object proxy is of the kind its
\* address denotes, whichever constructor was asked.
C8_GenericKindMatchesAddress ==
    /\ (last.cls = "ID" /\ last.form = "addr" /\ last.arg \in ObjAddrs) =>
            (last.tag = "Proxy" /\ last.proxy.cls = Denoted(last.arg))
    /\ \A t \in Threads : frame[t].cls = "ID" => frame[t].rcls = Denoted(frame[t].arg)
    /\ \A p \in live : p.fam = "ID" => p.cls = Denoted(p.addr)
    /\ \A a \in ObjAddrs :
            Denoted(a) = (IF object_isClass(a)
                            THEN (IF class_isMetaClass(a) THEN "MetaClass" ELSE "Class")
                          ELSE IF _is_protocol(a) THEN "Protocol" ELSE "ID")

\* ID(address) was called for the protocol object and for a metaclass, and
\* returned a Protocol proxy and a MetaClass proxy.
C8_Witness ==
    /\ last.cls = "ID"
    /\ last.tag = "Proxy"
    /\ last.proxy.cls = "Protocol"
    /\ \E p \in live : p.cls = "MetaClass"

\* C9: a constructor called with the null address returns None, for every
\* kind and either retain flag: it raises nothing, reaches no cache lookup,
\* sends no retain and no release and changes no cache.
C9_NullGivesNone ==
    /\ [](\A t \in Threads : frame[t].arg # NULL)
    /\ [](\A f \in Families : cache[<<f, NULL>>] = NoProxy /\ gen[<<f, NULL>>] = 0)
    /\ [](retains[NULL] = 0 /\ releases[NULL] = 0)
    /\ [](last.arg = NULL => last.tag = "None")
    /\ [][(calls' = calls + 1 /\ last'.arg = NULL) =>
            UNCHANGED <<cache, lock, live, gen, pending, retains, releases, pc, frame,
                        held>>]_ivars

\* Class(NULL, retain=False) returned None while proxies were cached.
C9_Witness ==
    /\ last.arg = NULL
    /\ last.cls = "Class"
    /\ ~last.retain
    /\ last.tag = "None"
    /\ live # {}

\* ------------------------------------------------------------------------
\* Claims about message sends.

\* The selector-validity and arity preconditions of a send.
PreconditionFailures == {"InvalidSelector", "ArityTypes", "ArityColons"}

C6_ArityMismatchFails ==
    ( /\ out.api # "-"
      /\ out.fail \notin {"InvalidSelector", "NotResponding", "TypesTogether",
                          "NoMethod", "EllipsisType"}
      /\ ~IsVariadic(out.argtypes)
      /\ \/ Len(out.args) # Len(out.argtypes)
         \/ Len(out.args) # ColonCount(sel_getName(out.sel)) )
    => (out.fail \in {"ArityTypes", "ArityColons"} /\ out.target = 0)

\* The return types that are a struct passed by value.
DirectStructs == {"struct S"}

\* C10: the _stret entry point is chosen iff the platform is not 64-bit and
\* the return type is a struct by value; on a 32-bit platform void, scalar,
\* floating-point, pointer (also pointer to struct) and union return types,
\* and on a 64-bit platform every return type, get the normal entry point.
C10_StretIffDirectStructOn32Bit ==
    out.entry # "-" =>
        /\ out.entry \in {"objc_msgSend", "objc_msgSend_stret"}
        /\ out.entry = "objc_msgSend_stret" <=> (~LP64 /\ out.restype \in DirectStructs)
        /\ (LP64 \/ out.restype \in {"void", "int", "double", "id", "struct S *", "union U"})
                => out.entry = "objc_msgSend"

\* A send that returns a struct by value on a 32-bit platform went through
\* objc_msgSend_stret.
C10_Witness ==
    /\ ~LP64
    /\ out.restype = "struct S"
    /\ out.target = 1
    /\ out.entry = "objc_msgSend_stret"

\* The selectors of RetainSels whose name begins with copy, init,
\* mutableCopy or new.
ExemptSels == {"copy", "init", "mutableCopy", "new", "newObject"}

\* A step in which msg_send returned an object.
ObjectResult == sends' = sends + 1 /\ out'.fail = "" /\ out'.result # "-"

\* C11: the result of a message send is wrapped with retain=False iff the
\* selector name begins with copy, init, mutableCopy or new, and with
\* retain=True for every other name; an object result of an exempt selector
\* that is already cached causes one release and no retain, a fresh one no
\* retain and no release; the result of any other selector causes one retain
\* when fresh and nothing when cached.
C11_ExemptSelectorsNotRetained ==
    /\ [](out.api = "msg_send" /\ out.sel \in RetainSels =>
            (out.keep <=> out.sel \notin ExemptSels))
    /\ [][ObjectResult =>
            LET a == out'.result
                cached == cache[<<"ID", a>>] # NoProxy
                exempt == out'.sel \in ExemptSels
            IN  /\ cache'[<<"ID", a>>] # NoProxy
                /\ cached => cache'[<<"ID", a>>] = cache[<<"ID", a>>]
                /\ retains' = [retains EXCEPT ![a] =
                        @ + (IF ~exempt /\ ~cached THEN 1 ELSE 0)]
                /\ releases' = [releases EXCEPT ![a] =
                        @ + (IF exempt /\ cached THEN 1 ELSE 0)]]_vars

\* The message new returned an object that was cached already: one release.
C11_Witness ==
    /\ out.sel = "new"
    /\ out.result = "proto1"
    /\ ~out.keep
    /\ releases["proto1"] = 1
    /\ retains["proto1"] = 1

\* ------------------------------------------------------------------------
\* Claims about the inherited views.

\* The classes from c up to the root, nearest first.
NearestFirst(c) == [i \in 1..c |-> c + 1 - i]

\* The nearest class at or above c that declares name in table tbl, or Nil.
NearestDeclaring(tbl, c, name) ==
    LET S == {d \in 1..c : name \in Range(tbl[d])}
    IN  IF S = {} THEN Nil ELSE CHOOSE d \in S : \A e \in S : e <= d

RECURSIVE KeysNearestFirst(_, _)
\* The declared keys from class c up to the root, a key declared by a nearer
\* class left out.
KeysNearestFirst(c, seen) ==
    IF c = Nil THEN <<>>
    ELSE Unseen(props[c], seen) \o KeysNearestFirst(c - 1, seen \cup Range(props[c]))

\* C12: the inherited view of properties of a class, whatever the depth of
\* its chain, consults the declared tables nearest class first: the class,
\* its superclass, and so on up to the root, for lookup, membership and
\* iteration, and a key declared at several levels resolves to the nearest
\* declaration.
C12_ChainConsultsNearestFirst ==
    /\ ans.op = "getitem" =>
            /\ ans.keys = NearestFirst(ans.cls)
            /\ ans.owner = NearestDeclaring(props, ans.cls, ans.key)
    /\ ans.op = "contains" =>
            /\ ans.keys = NearestFirst(ans.cls)
            /\ ans.found <=> NearestDeclaring(props, ans.cls, ans.key) # Nil
    /\ ans.op = "iter" => ans.keys = KeysNearestFirst(ans.cls, {})

\* C13: a lookup in the inherited method view of a class returns the method
\* of the nearest class of its superclass chain that declares the selector
\* (for Root, Mid, Leaf with foo declared by Root and Mid: Mid's), and fails
\* with KeyError when no class of the chain declares it.
C13_MethodOfNearestClass ==
    ans.op = "method" =>
        /\ ans.owner = NearestDeclaring(meths, ans.cls, ans.key)
        /\ ans.found <=> (\E d \in 1..ans.cls : ans.key \in Range(meths[d]))
        /\ (ans.cls = 3 /\ ans.key = "foo" /\ meths[1] = <<"foo">> /\ meths[2] = <<"foo">> /\ meths[3] = <<>>)
                => ans.owner = 2

\* Root declares foo, Mid overrides it, Leaf declares nothing, and foo was
\* looked up in Leaf's view: Mid's method.
C13_Witness ==
    /\ ans.op = "method"
    /\ ans.cls = 3
    /\ ans.key = "foo"
    /\ meths[1] = <<"foo">> /\ meths[2] = <<"foo">> /\ meths[3] = <<>>
    /\ ans.owner = 2

\* C26: once the declared table of a class is materialized, a lookup of one
\* key gives the table's entry for the key and fails for a key that is not in
\* the table, so that it succeeds iff the key is a member, and it makes no
\* by-name query of the runtime.
C26_MaterializedTableServesLookups ==
    (ans.op = "declared" /\ ans.cls \in ans.cached) =>
        /\ ans.found <=> ans.key \in Range(props[ans.cls])
        /\ ans.found => ans.owner = ans.cls
        /\ ~ans.queried

\* ------------------------------------------------------------------------
\* Claims about protocol conformance.

RECURSIVE SuperclassChain(_)
SuperclassChain(c) == IF c = NULL THEN {} ELSE {c} \cup SuperclassChain(class_getSuperclass(c))

\* q is reachable from n: from a protocol along the protocol lists, from a
\* class along the protocol lists of the class and of its superclasses.
Conforms(n, q) ==
    IF n \in Protos THEN q \in ReachFrom(adopts, {n})
    ELSE q \in ReachFrom(adopts, UNION {adopts[d] : d \in SuperclassChain(n)})

\* C14: the manual conformance check of a class or protocol against a
\* protocol Q returns true iff Q is reachable through direct adoption, the
\* superclass chain and the conformance of adopted protocols, recursively.
C14_ManualCheckIsReachability ==
    conf.result # "-" => (conf.result = "T" <=> Conforms(conf.subj, conf.target))

\* Derived adopts P1 only, P1 conforms to P2, and Derived was found to
\* conform to P2.
C14_Witness ==
    /\ conf.subj = "Derived"
    /\ conf.target = "P2"
    /\ adopts["Derived"] = {"P1"}
    /\ adopts["Base"] = {}
    /\ "P2" \in adopts["P1"]
    /\ conf.result = "T"

\* C15: on a runtime whose superclass links and protocol lists have no
\* cycle, every manual conformance check returns; the calls under way are
\* for distinct classes and protocols.
C15_ManualCheckTerminates ==
    /\ (conf.stack # <<>>) ~> (conf.stack = <<>> /\ conf.result \in {"T", "F"})
    /\ [](\A i \in 1..Len(conf.stack), j \in 1..Len(conf.stack) :
            i # j => conf.stack[i].subj # conf.stack[j].subj)
    /\ [](Len(conf.stack) < MaxStack)

\* The check of Derived against P3 returned False after it had gone through
\* the superclass and a chain of two protocols.
C15_Witness ==
    /\ conf.subj = "Derived"
    /\ conf.target = "P3"
    /\ adopts["Derived"] = {"P1"}
    /\ adopts["P1"] = {"P2"}
    /\ adopts["P2"] = {}
    /\ conf.stack = <<>>
    /\ conf.result = "F"

\* ------------------------------------------------------------------------
\* Claims about lazy tables.

\* C16: when threads race on the first access of a lazy table, the table
\* stored first is never replaced by a later store, and every caller, racing
\* or later, is served from that same table.
C16_FirstStoreIsRetained ==
    /\ lazy.first # 0 => lazy.cached = lazy.first
    /\ \A t \in Readers : lazy.served[t] # 0 => lazy.served[t] = lazy.first

\* ------------------------------------------------------------------------
\* Claims about proxy destruction.

\* A thread has something to finish: a constructor call, a type resolution
\* or a callback.
Busy(t) == pc[t] # "idle" \/ typelock = t \/ cb[t] # NoProxy

\* C17: no interleaving of a release callback with an interning lookup
\* deadlocks: the release path takes neither the cache lock nor the
\* type-resolution lock, so a callback that was started can always send its
\* release, whatever locks a lookup holds, and whenever a thread has
\* something to finish some thread can take a step.
C17_ReleaseNeverDeadlocks ==
    /\ \A t \in Threads : cb[t] # NoProxy => ENABLED DestroyRelease(t)
    /\ (\E t \in Threads : Busy(t)) => ENABLED DestroyProgress

\* A callback runs on a thread that holds the type-resolution lock while the
\* other thread holds the cache lock.
C17_Witness ==
    \E t \in Threads, u \in Threads :
        /\ t # u
        /\ cb[t] # NoProxy
        /\ typelock = t
        /\ lock["ID"] = u

\* ------------------------------------------------------------------------
\* Claims about attribute access.

\* Class c or one of its superclasses declares the name in the table.
Inherits(tbl, c, name) == \E d \in 1..c : name \in Range(tbl[d])

\* The selector an attribute name stands for.
AsSelector(name) == IF name = <<"f", "_">> THEN <<"f", ":">> ELSE name

\* C18: reading an unrecognized attribute of an object proxy yields the
\* property of that exact name if the class has one; only if it has none, a
\* bound method for the name with every `_` replaced by `:` if the class has
\* that method; and attribute-not-found if it has neither; nothing else
\* happens.
C18_PropertyThenMethodThenError ==
    attr.op = "get" =>
        IF Inherits(props, attr.cls, attr.name)
            THEN attr.outcome = "property"
        ELSE IF Inherits(meths, attr.cls, AsSelector(attr.name))
            THEN attr.outcome = "BoundMethod" /\ attr.sel = AsSelector(attr.name)
        ELSE attr.outcome = "AttributeError"

\* C18 as amended: with the switch SHORT_PROPERTIES off, as shipped, a read
\* never consults the property table and sends no message: it yields a bound
\* method for the name with every `_` replaced by `:` if the class has that
\* method and attribute-not-found otherwise, whether or not the class has a
\* property of the name.
C18_MethodThenError ==
    attr.op = "get" =>
        /\ attr.sent = <<>>
        /\ IF Inherits(meths, attr.cls, AsSelector(attr.name))
              THEN attr.outcome = "BoundMethod" /\ attr.sel = AsSelector(attr.name)
              ELSE attr.outcome = "AttributeError" /\ attr.sel = <<>>

\* A property that is also a method is read as a bound method, and a name
\* with `_` as the method with `:`.
C18_Witness ==
    /\ attr.op = "get"
    /\ \/ /\ attr.name = <<"p">>
          /\ Inherits(props, attr.cls, <<"p">>)
          /\ Inherits(meths, attr.cls, <<"p">>)
          /\ attr.outcome = "BoundMethod"
       \/ /\ attr.name = <<"f", "_">>
          /\ attr.outcome = "BoundMethod"
          /\ attr.sel = <<"f", ":">>

\* The instance properties that class c has, its superclasses' included.
InstancePropertyNames(c) == {k \in PropKeys : Inherits(props, c, k)}

\* C19: writing an attribute that is not a native one on an initialised
\* proxy sends the property's setter with the value iff the name is an
\* instance property of the object's class, and assigns locally without any
\* message otherwise; the name set of the class is computed once, on the
\* first write, and holds the names of the inherited instance properties.
C19_WriteSetsPropertyIffNamed ==
    /\ (attr.op = "set" /\ attr.name \notin NativeNames) =>
          /\ IF attr.name \in InstancePropertyNames(attr.cls)
                THEN attr.outcome = "property-set" /\ Len(attr.sent) = 1
                ELSE attr.outcome = "local" /\ attr.sent = <<>>
          /\ attr.computed[attr.cls] = 1
    /\ \A c \in ChainClasses :
          attr.computed[c] = 1 => attr.names[c] = InstancePropertyNames(c)

\* ------------------------------------------------------------------------
\* Claims about coercion.

\* C20: coercing an object proxy to a target class returns the same proxy
\* when the object's class is the target or one of its subclasses and fails
\* with a type error otherwise, and the call returns: the walk up the
\* superclass chain ends within the length of the chain.
C20_CoerceOfProxyReturns ==
    /\ (co.pc = "done" /\ co.target # Nil) =>
          co.result = IF co.target \in 1..co.obj THEN "same" ELSE "TypeError"
    /\ co.pc = "loop" => co.steps <= co.obj

DictionaryClasses == {"NSDictionary", "NSMutableDictionary"}

\* C21: coercing a native mapping to a target that is the dictionary class
\* or a subclass of it calls the dictionary conversion with that target, and
\* never the string, data, array or set conversion.
C21_MappingToDictionaryClass ==
    (co.pc = "done" /\ co.kind = "mapping" /\ co.want \in DictionaryClasses) =>
        co.result = "to_dictionary" /\ co.with = co.want

\* ------------------------------------------------------------------------
\* Claims about the namespaces.

\* C22: a lookup by a name the runtime does not know fails with a not-found
\* error and creates no proxy, and whenever no lookup is under way the known
\* names of each namespace are exactly the names whose most recent lookup
\* succeeded.
C22_KnownNamesAreRecentSuccesses ==
    /\ [](ns.space = "-" =>
            \A sp \in Spaces :
                ns.known[sp] = {n \in Names : ns.recent[sp][n] = "ok"})
    /\ [][\A sp \in Spaces, n \in Names :
            (ENABLED LookupName(sp, n) /\ ByName(sp, n) = NULL /\ LookupName(sp, n)) =>
                /\ ns'.out = "AttributeError"
                /\ live' = live /\ cache' = cache /\ gen' = gen]_vars

\* A protocol name failed before the protocol was registered, succeeded after,
\* and is known; an unknown class name has failed.
C22_Witness ==
    /\ ns.space = "-"
    /\ "proto1" \in ns.known["protocols"]
    /\ ns.recent["classes"]["Nope"] = "fail"
    /\ ns.recent["classes"]["proto1"] = "fail"
    /\ cache[<<"ID", "proto1">>] # NoProxy

\* ------------------------------------------------------------------------
\* Claims about property writes.

\* The setter selector that the claim gives each property that can be
\* written.
ExpectedSetter(name) ==
    CASE name = <<"p">> -> <<"s", "e", "t", "P", ":">>
      [] name = <<"e">> -> <<"p", "u", "t", "E", ":">>
      [] OTHER -> <<>>

\* the messages that carry the value
ValueMessages == SelectSeq(attr.sent, LAMBDA msg : msg.arg = "value")

\* C23: setting a read-only property fails with a type error and sends no
\* message; setting any other property sends exactly the setter selector
\* with the value, the declared setter or else `set` + the name with its
\* first letter upper-cased + `:`; a read-only property has no setter.
C23_SetSendsSetterUnlessReadOnly ==
    /\ \A name \in ReadOnlyKeys : setter(name) = <<>>
    /\ attr.op = "propset" =>
          IF attr.name \in ReadOnlyKeys
             THEN attr.outcome = "TypeError" /\ attr.sent = <<>>
             ELSE /\ attr.outcome = "property-set"
                  /\ ValueMessages = <<Message(ExpectedSetter(attr.name), "value")>>

\* C23 as amended: as above, but the setter is sent only when the instance
\* responds to it and its class has a method for it; when not, the set fails
\* with a value error and no message carries the value.
C23_SetSendsSetterIfImplemented ==
    /\ \A name \in ReadOnlyKeys : setter(name) = <<>>
    /\ attr.op = "propset" =>
          IF attr.name \in ReadOnlyKeys
             THEN attr.outcome = "TypeError" /\ attr.sent = <<>>
          ELSE IF Inherits(meths, attr.cls, ExpectedSetter(attr.name))
             THEN /\ attr.outcome = "property-set"
                  /\ ValueMessages = <<Message(ExpectedSetter(attr.name), "value")>>
          ELSE attr.outcome = "ValueError" /\ ValueMessages = <<>>

\* The default setter of a property has been sent with the value, after the
\* query whether the instance responds to it.
C23_Witness ==
    /\ attr.op = "propset"
    /\ attr.name = <<"p">>
    /\ attr.outcome = "property-set"
    /\ attr.sel = <<"s", "e", "t", "P", ":">>
    /\ Len(attr.sent) = 2

\* ------------------------------------------------------------------------
\* Claims about Method proxies.

\* C24: invoking a Method proxy with arguments that match its declared
\* signature and no explicit types does not fail before the external call:
\* the types are those of the decoded signature, the invocation goes through
\* the entry point chosen for the return type, and the result is unwrapped
\* with the retain intent that the selector name gives.
C24_MethodCallInvokes ==
    (/\ out.api = "Method.__call__"
     /\ Len(out.args) = Len(decode_signature(out.sel).argtypes)
     /\ \A i \in 1..Len(out.args) : out.args[i] = "proxy") =>
        /\ out.fail = ""
        /\ out.target = 1
        /\ out.restype = decode_signature(out.sel).restype
        /\ out.argtypes = decode_signature(out.sel).argtypes
        /\ out.entry \in {"method_invoke", "method_invoke_stret"}
        /\ out.keep = _should_retain_result(out.sel)

\* ------------------------------------------------------------------------
\* Claims about the checks of a send.

CountErrors == {"ArityTypes", "ArityColons"}

\* C25: a send whose selector is not registered fails with the
\* invalid-selector error whatever the argument types are, the variadic
\* marker included, and whatever the argument count is; a send whose selector
\* is valid and whose argument types end with the variadic marker never
\* fails a count check, however many arguments it has.
C25_SelectorFirstVariadicUncounted ==
    out.api # "-" =>
        /\ ~sel_isMapped(out.sel) =>
              out.fail = "InvalidSelector" /\ out.target = 0
        /\ (sel_isMapped(out.sel) /\ IsVariadic(out.argtypes)) =>
              out.fail \notin CountErrors

\* A variadic send was made with a number of arguments that is neither the
\* number of argument types nor the number of colons of the selector.
C25_Witness ==
    /\ out.api = "_objc_msgSend"
    /\ IsVariadic(out.argtypes)
    /\ Len(out.args) # Len(out.argtypes)
    /\ Len(out.args) # ColonCount(sel_getName(out.sel))
    /\ out.fail = ""
    /\ out.target = 1

\* ------------------------------------------------------------------------
\* Claims about the initialisation of interned proxies.

\* The object-family proxies that are registered in the cache while their
\* creator has not yet set the methods, properties and _methods_cache
\* attributes.
HalfMade == {p \in live : \E u \in Threads : pc[u] = "fields" /\ frame[u].self = p}

\* C27: a proxy that a thread has obtained from the interning cache is fully
\* initialised: its attribute tables were set before it was registered.
C27_ObtainedProxiesAreInitialised ==
    \A t \in Threads : held[t] \cap HalfMade = {}

\* ------------------------------------------------------------------------
\* Claims about the subclass test.

\* C28: _objc_issubclass(subclass, superclass) terminates for every pair of
\* classes of a finite chain: it has returned before it has made more turns
\* of its loop than the chain has classes, with True iff the second class is
\* the first or one of its superclasses.
C28_IssubclassTerminates ==
    /\ co.issub # "-" => (co.issub = "T" <=> co.target \in 1..co.obj)
    /\ co.steps <= MaxDepth


\* ------------------------------------------------------------------------
\* Claims about the argument forms of the constructors.

\* C29: while a construction made with retain=False is under way, whatever
\* form carries the address, no retain is sent, and the step that finds the
\* proxy in the cache sends exactly one release to the object.
C29_RetainIntentHonoured ==
    [][(sends' = 1 /\ ~req.check) =>
        /\ retains' = retains
        /\ (sends = 0 /\ last'.via = "hit1" =>
                releases' = [releases EXCEPT ![req.res] = @ + 1])]_vars

\* ------------------------------------------------------------------------
\* Claims about the size of the inherited views.

\* C30: the length an inherited view reports is the number of distinct keys
\* its iteration yields, also when classes of the chain declare the same key,
\* and every key the iteration yields is a member of the view and is found
\* by a lookup.
C30_LengthCountsDistinctKeys ==
    /\ ans.op = "len" =>
        ans.len = Cardinality(Range(MappingChain_iter(_mappings(ans.cls), {})))
    /\ ans.op = "iter" =>
        \A i \in 1..Len(ans.keys) :
            /\ MappingChain_contains(_mappings(ans.cls), ans.keys[i])
            /\ MappingChain_getitem(_mappings(ans.cls), ans.keys[i]) # Nil

====
